---- MODULE Spec2Model ----
(***************************************************************************)
(* Model of the report-template evaluator (src/app/template):              *)
(*   - the interpolation extractor   (dependency/extractor.py)             *)
(*   - the dependency resolver       (dependency/resolver.py)              *)
(*   - variables and lazy expressions (variable/*.py)                      *)
(*   - content rendering and the orchestrator (content, __init__.py)       *)
(* Texts are sequences of one-character strings; offsets are 0-based as in *)
(* the Python source and converted to TLA+'s 1-based indexing on access.   *)
(***************************************************************************)
EXTENDS Integers, Sequences, FiniteSets, TLC

(***************************************************************************)
(* Bounds                                                                  *)
(***************************************************************************)
\* longest generated input text of parse
MaxLen == 7
\* most variables added to one DependencyResolver
MaxVars == 3
\* most variable entries in a generated template document
MaxEntries == 2

(***************************************************************************)
(* 32-bit unsigned arithmetic on words <<hi16, lo16>> (xxhash works mod    *)
(* 2^32; the halves keep every intermediate product inside TLC's integers) *)
(***************************************************************************)
W16 == 65536

Pow2(n) == CASE n = 0 -> 1 [] n = 1 -> 2 [] n = 2 -> 4 [] n = 3 -> 8
             [] n = 4 -> 16 [] n = 5 -> 32 [] n = 6 -> 64 [] n = 7 -> 128
             [] n = 8 -> 256 [] n = 9 -> 512 [] n = 10 -> 1024
             [] n = 11 -> 2048 [] n = 12 -> 4096 [] n = 13 -> 8192
             [] n = 14 -> 16384 [] n = 15 -> 32768 [] n = 16 -> 65536

\* a local variable: F applied to the value assigned to it
With(v, F(_)) == F(v)

Add32(a, b) ==
    LET lo == a[2] + b[2]
        hi == a[1] + b[1] + (lo \div W16)
    IN  << hi % W16, lo % W16 >>

\* (x * y) mod 2^16 for 16-bit x, y
MulLo16(x, y) == ((x % 256) * y + (((x \div 256) * y) % 256) * 256) % W16

Mul32(a, b) ==
    LET p0 == (a[2] % 256) * b[2]
        p1 == (a[2] \div 256) * b[2]
        s  == p0 + (p1 % 256) * 256
        lo == s % W16
        carry == (s \div W16) + (p1 \div 256)
        cross == MulLo16(a[1], b[2]) + MulLo16(a[2], b[1])
    IN  << (carry + cross) % W16, lo >>

Rotl32(a, r) ==
    LET b == IF r >= 16 THEN << a[2], a[1] >> ELSE a
        k == IF r >= 16 THEN r - 16 ELSE r
    IN  << ((b[1] * Pow2(k)) % W16) + (b[2] \div Pow2(16 - k)),
           ((b[2] * Pow2(k)) % W16) + (b[1] \div Pow2(16 - k)) >>

Shr32(a, s) ==
    IF s >= 16 THEN << 0, a[1] \div Pow2(s - 16) >>
    ELSE << a[1] \div Pow2(s),
            (a[2] \div Pow2(s)) + (a[1] % Pow2(s)) * Pow2(16 - s) >>

RECURSIVE XorBits(_, _, _)
XorBits(x, y, n) ==
    IF n = 0 THEN 0
    ELSE ((x + y) % 2) + 2 * XorBits(x \div 2, y \div 2, n - 1)

Xor32(a, b) == << XorBits(a[1], b[1], 16), XorBits(a[2], b[2], 16) >>

Word(n) == << n \div W16, n % W16 >>

(***************************************************************************)
(* xxhash.xxh32 (seed 0) over a sequence of bytes, as used by _parse_step  *)
(***************************************************************************)
PRIME32_1 == << 40503, 31153 >>
PRIME32_2 == << 34283, 51831 >>
PRIME32_3 == << 49842, 44605 >>
PRIME32_4 == << 10196, 60207 >>
PRIME32_5 == << 5718, 26545 >>

\* little-endian 32-bit read at 0-based position p
Read32(b, p) == << b[p + 4] * 256 + b[p + 3], b[p + 2] * 256 + b[p + 1] >>

XXHRound(acc, input) ==
    Mul32(Rotl32(Add32(acc, Mul32(input, PRIME32_2)), 13), PRIME32_1)

RECURSIVE XXHStripes(_, _, _)
XXHStripes(b, p, v) ==
    IF p + 16 > Len(b) THEN << p, v >>
    ELSE XXHStripes(b, p + 16,
            << XXHRound(v[1], Read32(b, p)),
               XXHRound(v[2], Read32(b, p + 4)),
               XXHRound(v[3], Read32(b, p + 8)),
               XXHRound(v[4], Read32(b, p + 12)) >>)

RECURSIVE XXHWords(_, _, _)
XXHWords(b, p, h) ==
    IF p + 4 > Len(b) THEN << p, h >>
    ELSE XXHWords(b, p + 4,
            Mul32(Rotl32(Add32(h, Mul32(Read32(b, p), PRIME32_3)), 17),
                  PRIME32_4))

RECURSIVE XXHBytes(_, _, _)
XXHBytes(b, p, h) ==
    IF p >= Len(b) THEN h
    ELSE XXHBytes(b, p + 1,
            Mul32(Rotl32(Add32(h, Mul32(Word(b[p + 1]), PRIME32_5)), 11),
                  PRIME32_1))

XXHAvalanche(h) ==
    With(Mul32(Xor32(h, Shr32(h, 15)), PRIME32_2), LAMBDA h1 :
    With(Mul32(Xor32(h1, Shr32(h1, 13)), PRIME32_3), LAMBDA h2 :
         Xor32(h2, Shr32(h2, 16))))

xxh32(b) ==
    \* v1..v4 = seed + PRIME32_1 + PRIME32_2, seed + PRIME32_2, seed,
    \* seed - PRIME32_1 (= 2^32 - PRIME32_1) for seed 0
    With(XXHStripes(b, 0, << Add32(PRIME32_1, PRIME32_2), PRIME32_2,
                             << 0, 0 >>, << 25032, 34383 >> >>),
         LAMBDA st :
    With(IF Len(b) >= 16
         THEN << st[1],
                 Add32(Add32(Rotl32(st[2][1], 1), Rotl32(st[2][2], 7)),
                       Add32(Rotl32(st[2][3], 12), Rotl32(st[2][4], 18))) >>
         ELSE << 0, PRIME32_5 >>,
         LAMBDA h0 :
    With(XXHWords(b, h0[1], Add32(h0[2], Word(Len(b)))), LAMBDA w :
         XXHAvalanche(XXHBytes(b, w[1], w[2])))))

HexDigits == << "0", "1", "2", "3", "4", "5", "6", "7",
                "8", "9", "a", "b", "c", "d", "e", "f" >>

Hex16(n) == << HexDigits[(n \div 4096) + 1], HexDigits[((n \div 256) % 16) + 1],
               HexDigits[((n \div 16) % 16) + 1], HexDigits[(n % 16) + 1] >>

\* hsh.hexdigest(): eight hexadecimal digits, most significant first
hexdigest(h) == Hex16(h[1]) \o Hex16(h[2])

\* int.to_bytes(4, byteorder="big")
to_bytes(n) == << (n \div 16777216) % 256, (n \div 65536) % 256,
                  (n \div 256) % 256, n % 256 >>

\* str.encode("utf-8") for the characters that occur in the modelled texts;
\* "e-acute" stands for the one non-ASCII character U+00E9 (two bytes)
Utf8 ==
    [c \in {" "} |-> << 32 >>] @@ ("$" :> << 36 >>) @@ ("(" :> << 40 >>)
    @@ (")" :> << 41 >>) @@ ("+" :> << 43 >>) @@ ("1" :> << 49 >>)
    @@ ("3" :> << 51 >>) @@ ("=" :> << 61 >>) @@ ("a" :> << 97 >>)
    @@ ("e" :> << 101 >>) @@ ("f" :> << 102 >>) @@ ("g" :> << 103 >>)
    @@ ("i" :> << 105 >>) @@ ("l" :> << 108 >>) @@ ("m" :> << 109 >>)
    @@ ("n" :> << 110 >>) @@ ("o" :> << 111 >>) @@ ("p" :> << 112 >>)
    @@ ("r" :> << 114 >>) @@ ("s" :> << 115 >>) @@ ("u" :> << 117 >>)
    @@ ("v" :> << 118 >>) @@ ("x" :> << 120 >>) @@ ("y" :> << 121 >>)
    @@ ("{" :> << 123 >>) @@ ("}" :> << 125 >>)
    @@ ("e-acute" :> << 195, 169 >>)

RECURSIVE encode(_)
encode(s) == IF s = << >> THEN << >> ELSE Utf8[Head(s)] \o encode(Tail(s))

(***************************************************************************)
(* State                                                                   *)
(***************************************************************************)
VARIABLES
    text,          \* parse: the argument `text`
    mutate_text,   \* parse: local `mutate_text`
    offset,        \* parse: local `offset`
    table,         \* parse: local `table`, sequence of <<hash, expr>>
    presult,       \* parse: "run" while looping, else the kind of the result
    perr,          \* parse: offset carried by the ValueError message, or -1
    offsets,       \* history of the offsets returned by _parse_step
    _table,        \* DependencyResolver._table
    _graph,        \* DependencyResolver._graph
    ret,           \* what the last resolver operation returned or raised
    evaluated,     \* the list returned by the last successful eval()
    loads,         \* the calls of load() the last eval() made, in order
    request,       \* the template document as it was submitted
    data,          \* unmarshal_template: the template document `data`
    pc,            \* unmarshal_template: where the request stands
    loaded,        \* unmarshal_template: the cache `loaded` (name -> mapping)
    variables,     \* unmarshal_template: the variables built so far
    response,      \* unmarshal_template: what it returned or raised
    load_calls,    \* names of the sources whose load_async was called
    raw_ast,       \* LazyExpr.__init__: the statements of ast.parse(raw).body
    lazy,          \* LazyExpr.__init__: the object built, or the exception
    parked,        \* the frame of the other, suspended unmarshal_template
    overlap,       \* whether both requests were ever awaiting a load at once
    __global_imports__,  \* variable/model.py: the module's __global_imports__
    html_parse_result,   \* HtmlParseResult.load: `self`
    load_evaluated,      \* HtmlParseResult.load: the argument `evaluated`
    rendered             \* HtmlParseResult.load: what it returned or raised

pvars == << text, mutate_text, offset, table, presult, perr, offsets >>
rvars == << _table, _graph, ret, evaluated, loads >>
tvars == << request, data, pc, loaded, variables, response, load_calls >>
evars == << raw_ast, lazy >>
cvars == << parked, overlap, __global_imports__ >>
hvars == << html_parse_result, load_evaluated, rendered >>
vars  == << pvars, rvars, tvars, evars, cvars, hvars >>

(***************************************************************************)
(* extractor.py                                                            *)
(***************************************************************************)
\* text[a:b] of Python (0-based, end exclusive, clipped to the text)
Slice(s, a, b) == SubSeq(s, a + 1, IF b > Len(s) THEN Len(s) ELSE b)

RECURSIVE ScanEnd_first_brace(_, _, _)
\* the scan that stops at the first closing brace, nested or not
ScanEnd_first_brace(sub, end, nested_cnt) ==
    IF end >= Len(sub) THEN end
    ELSE IF sub[end + 1] = "}" THEN end
    ELSE ScanEnd_first_brace(sub, end + 1, nested_cnt)

\* the `while end < len(sub)` loop of _parse_step: the index of the closing
\* brace, or len(sub) when there is none
RECURSIVE ScanEnd(_, _, _)
ScanEnd(sub, end, nested_cnt) ==
    IF end >= Len(sub) THEN end
    ELSE IF sub[end + 1] = "{" THEN ScanEnd(sub, end + 1, nested_cnt + 1)
    ELSE IF sub[end + 1] = "}"
         THEN IF nested_cnt = 0 THEN end
              ELSE ScanEnd(sub, end + 1, nested_cnt - 1)
    ELSE ScanEnd(sub, end + 1, nested_cnt)

\* e_offset = start_offset + end + 1: the offset just after the closing brace
e_offset_on_brace(start_offset, end) == start_offset + end

e_offset(start_offset, end) == start_offset + end + 1

\* the hash of a placeholder: xxh32 of the offset (4 bytes, big endian)
\* followed by the expression
Digest(s_offset, expr) == hexdigest(xxh32(to_bytes(s_offset) \o encode(expr)))

\* a step that resumes where the placeholder began
next_offset_at_start(s_offset, digest) == s_offset

\* next_offset = s_offset + len(digest)
next_offset(s_offset, digest) == s_offset + Len(digest)

_parse_step(txt, start_offset) ==
    IF start_offset >= Len(txt) THEN [k |-> "IndexError"]
    ELSE
      LET sub  == Slice(txt, start_offset, Len(txt))
          hits == { i \in 0..(Len(sub) - 1) :
                      /\ sub[i + 1] = "$"
                      /\ i + 1 < Len(sub)
                      /\ sub[i + 2] = "{" }
      IN  IF hits = {} THEN [k |-> "EOFError"]
          ELSE
            LET i     == CHOOSE j \in hits : \A h \in hits : j <= h
                start == i + 2
                end   == ScanEnd(sub, start, 0)
            IN  IF end = Len(sub)
                THEN [k |-> "ValueError", at |-> start_offset + start]
                ELSE
                  LET expr        == Slice(sub, start, end)
                      s_offset    == start_offset + start - 2
                      before_expr == Slice(txt, 0, s_offset)
                      after_expr  == Slice(txt, e_offset(start_offset, end),
                                           Len(txt))
                  IN  With(Digest(s_offset, expr), LAMBDA digest :
                        [k      |-> "Ok",
                         text   |-> before_expr \o digest \o after_expr,
                         offset |-> next_offset(s_offset, digest),
                         hash   |-> digest,
                         expr   |-> expr])

\* one iteration of parse's `while True` whose step returned Ok
ParseOk ==
    /\ presult = "run"
    /\ \E res \in { _parse_step(mutate_text, offset) } :
           /\ res.k = "Ok"
           /\ table' = Append(table, << res.hash, res.expr >>)
           /\ mutate_text' = res.text
           /\ offset' = res.offset
           /\ offsets' = Append(offsets, res.offset)
    /\ UNCHANGED << text, presult, perr >>
    /\ UNCHANGED << rvars, tvars, evars, cvars, hvars >>

\* the iteration whose step returned EOFError: break, return Ok(ParseResult)
ParseEOF ==
    /\ presult = "run"
    /\ _parse_step(mutate_text, offset).k = "EOFError"
    /\ presult' = "Ok"
    /\ UNCHANGED << text, mutate_text, offset, table, perr, offsets >>
    /\ UNCHANGED << rvars, tvars, evars, cvars, hvars >>

\* the iteration whose step returned another error: return Err(e)
ParseErr ==
    /\ presult = "run"
    /\ \E res \in { _parse_step(mutate_text, offset) } :
           /\ res.k \in {"IndexError", "ValueError"}
           /\ presult' = res.k
           /\ perr' = IF res.k = "ValueError" THEN res.at ELSE -1
    /\ UNCHANGED << text, mutate_text, offset, table, offsets >>
    /\ UNCHANGED << rvars, tvars, evars, cvars, hvars >>

RECURSIVE parse_loop_partial(_, _, _)
\* parse that hands out the table built so far with the error
parse_loop_partial(mt, off, tbl) ==
    With(_parse_step(mt, off), LAMBDA res :
        IF res.k = "Ok"
        THEN parse_loop_partial(res.text, res.offset,
                                Append(tbl, << res.hash, res.expr >>))
        ELSE IF res.k = "EOFError"
        THEN [k |-> "Ok", text |-> mt, table |-> tbl]
        ELSE [k |-> res.k, text |-> mt, table |-> tbl])

\* parse(text) run to completion, as a function: used by the callers of parse
RECURSIVE parse_loop(_, _, _)
parse_loop(mt, off, tbl) ==
    With(_parse_step(mt, off), LAMBDA res :
        IF res.k = "Ok"
        THEN parse_loop(res.text, res.offset,
                        Append(tbl, << res.hash, res.expr >>))
        ELSE IF res.k = "EOFError"
        THEN [k |-> "Ok", text |-> mt, table |-> tbl]
        ELSE [k |-> res.k, text |-> << >>, table |-> << >>])

parse(txt) == parse_loop(txt, 0, << >>)

(***************************************************************************)
(* Input texts                                                             *)
(***************************************************************************)
Alphabet == {"$", "{", "}", "x"}

\* Scenario F: sum = ${ sum({x for x in range(3)}) }
ScenarioF ==
    << "s", "u", "m", " ", "=", " ", "$", "{", " ", "s", "u", "m", "(", "{",
       "x", " ", "f", "o", "r", " ", "x", " ", "i", "n", " ", "r", "a", "n",
       "g", "e", "(", "3", ")", "}", ")", " ", "}" >>

\* the expression of Scenario F:  sum({x for x in range(3)})  with its blanks
ScenarioFExpr == SubSeq(ScenarioF, 9, 36)

\* Scenario D content: value is ${pi}
ScenarioD ==
    << "v", "a", "l", "u", "e", " ", "i", "s", " ", "$", "{", "p", "i", "}" >>

\* ${aluyn}${ple}z
CollidingText ==
    << "$", "{", "a", "l", "u", "y", "n", "}", "$", "{", "p", "l", "e", "}", "z" >>

Texts ==
    UNION { [1..n -> Alphabet] : n \in 0..MaxLen }
    \cup { ScenarioF, ScenarioF \o << "x" >>, ScenarioD, CollidingText,
           << "x", "$", "{", "e-acute", "}", "=" >> }

InitParse ==
    /\ text \in Texts
    /\ mutate_text = text
    /\ offset = 0
    /\ table = << >>
    /\ presult = "run"
    /\ perr = -1
    /\ offsets = << >>

NextParse == ParseOk \/ ParseEOF \/ ParseErr

\* the resolver left untouched while the extractor runs
IdleResolver ==
    /\ _table = << >>
    /\ _graph = [nodes |-> << >>, adj |-> << >>]
    /\ ret = "idle"
    /\ evaluated = << >>
    /\ loads = << >>

\* the extractor left untouched while the resolver runs
InitParseIdle ==
    /\ text = << >>
    /\ mutate_text = << >>
    /\ offset = 0
    /\ table = << >>
    /\ presult = "idle"
    /\ perr = -1
    /\ offsets = << >>

\* no request in progress
IdleTemplate ==
    /\ request = << >>
    /\ data = << >>
    /\ pc = "idle"
    /\ loaded = << >>
    /\ variables = << >>
    /\ response = "idle"
    /\ load_calls = << >>

\* no LazyExpr under construction
IdleExpr ==
    /\ raw_ast = << >>
    /\ lazy = [k |-> "idle"]

\* no second request; __global_imports__ = [] as the module is imported
IdleTasks ==
    /\ parked = [pc |-> "idle"]
    /\ overlap = FALSE
    /\ __global_imports__ = {}

\* no HtmlParseResult being rendered
IdleLoad ==
    /\ html_parse_result = [k |-> "idle"]
    /\ load_evaluated = << >>
    /\ rendered = [k |-> "idle"]

InitParseOnly ==
    InitParse /\ IdleResolver /\ IdleTemplate /\ IdleExpr /\ IdleTasks
    /\ IdleLoad

SpecParse == InitParseOnly /\ [][NextParse]_vars


(***************************************************************************)
(* Expressions (variable/expr.py, variable/visitor.py)                     *)
(* An expression is the syntax tree ast.parse builds for its text.  Every  *)
(* node is a record [k, id, n, args]: k the node class, id a name or an    *)
(* operator, n a number, args the child nodes in field order.              *)
(***************************************************************************)
Node(k, id, n, args) == [k |-> k, id |-> id, n |-> n, args |-> args]

\* floats are fixed-point numbers with five decimals (3.14159 is 314159)
FloatScale == 100000

Num(n)           == Node("Num", "", n, << >>)
Float(n)         == Node("Float", "", n, << >>)
Name(id)         == Node("Name", id, 0, << >>)
BinOp(l, op, r)  == Node("BinOp", op, 0, << l, r >>)
Call(f, a)       == Node("Call", "", 0, << f, a >>)
Lambda(arg, b)   == Node("Lambda", arg, 0, << b >>)
\* [elt for target in iter] and (elt for target in iter); the children in
\* field order are elt and the generator's iter (its target is a Name that
\* is stored, not read)
ListComp(elt, target, iter)     == Node("ListComp", target, 0, << elt, iter >>)
GeneratorExp(elt, target, iter) == Node("GeneratorExp", target, 0, << elt, iter >>)
\* obj.append(arg)
CallAppend(obj, arg) == Node("CallAppend", "", 0, << obj, arg >>)
\* f'{value:spec}'
FormattedValue(v, spec) == Node("FormattedValue", spec, 0, << v >>)
\* an optional expression that is None
NoExpr           == Node("None", "", 0, << >>)

\* UnboundVariableFinder: the walk of the tree, threading the finder's
\* _assigned and _unbound sets through the children in field order.  The
\* finder has visit_Lambda, visit_GeneratorExp and visit_Name; every other
\* node, a ListComp included, takes generic_visit
RECURSIVE visit(_, _)
RECURSIVE visit_all(_, _)
visit_all(nodes, st) ==
    IF nodes = << >> THEN st ELSE visit_all(Tail(nodes), visit(Head(nodes), st))

visit(node, st) ==
    IF node.k \in {"Lambda", "GeneratorExp"}
    THEN visit_all(node.args,
                   [st EXCEPT !.assigned = @ \cup {node.id}])
    ELSE IF node.k = "Name"
    THEN IF node.id \notin st.assigned
         THEN [st EXCEPT !.unbound = @ \cup {node.id}]
         ELSE st
    ELSE visit_all(node.args, st)

\* UnboundVariableFinder.builtin: set(dir(__builtins__)).  visitor.py is an
\* imported module, where CPython binds __builtins__ to the dict of the
\* builtins module, so dir() lists the attributes of a dict
builtin ==
    { "__class__", "__class_getitem__", "__contains__", "__delattr__",
      "__delitem__", "__dir__", "__doc__", "__eq__", "__format__",
      "__ge__", "__getattribute__", "__getitem__", "__getstate__",
      "__gt__", "__hash__", "__init__", "__init_subclass__", "__ior__",
      "__iter__", "__le__", "__len__", "__lt__", "__ne__", "__new__",
      "__or__", "__reduce__", "__reduce_ex__", "__repr__", "__reversed__",
      "__ror__", "__setattr__", "__setitem__", "__sizeof__", "__str__",
      "__subclasshook__", "clear", "copy", "fromkeys", "get", "items",
      "keys", "pop", "popitem", "setdefault", "update", "values" }

\* LazyExpr.unbound / UnboundVariableFinder.unbound
unbound(expr, imports) ==
    (visit(expr, [assigned |-> {}, unbound |-> {}]).unbound \ imports) \ builtin

(***************************************************************************)
(* LazyExpr.__init__ (variable/expr.py): the body of ast.parse(raw) is a   *)
(* sequence of statements [k, value]; k is the statement's class and value *)
(* the expression an Expr statement holds                                  *)
(***************************************************************************)
MaxStmts == 3

\* `x = 1`, `class C: pass`, `def f(): pass`, and the expression
\* statements `x + 1`, `1 + 2`, `lambda v: v`, `[x for x in xs]`,
\* `sum(x for x in xs)`, `xs.append(1)`
Stmts ==
    { [k |-> c, value |-> NoExpr] : c \in {"Assign", "ClassDef", "FunctionDef"} }
    \cup { [k |-> "Expr", value |-> e] :
             e \in { BinOp(Name("x"), "+", Num(1)), BinOp(Num(1), "+", Num(2)),
                     Lambda("v", Name("v")),
                     ListComp(Name("x"), "x", Name("xs")),
                     Call(Name("sum"), GeneratorExp(Name("x"), "x", Name("xs"))),
                     CallAppend(Name("xs"), Num(1)) } }

Bodies == UNION { [1..n -> Stmts] : n \in 0..MaxStmts }

\* LazyExpr(raw, imports): only the value of the last statement goes into
\* __lazy_expr and is visited by the finder; the statements before it are
\* dropped with a warning
LazyExpr_init(body, imports) ==
    IF body = << >> THEN [k |-> "ValueError"]
    ELSE IF body[Len(body)].k # "Expr" THEN [k |-> "ValueError"]
    ELSE [k |-> "Ok", expr |-> body[Len(body)].value,
          unbound |-> unbound(body[Len(body)].value, imports)]

InitExpr ==
    /\ raw_ast \in Bodies
    /\ lazy = [k |-> "none"]
    /\ InitParseIdle /\ IdleResolver /\ IdleTemplate /\ IdleTasks /\ IdleLoad

\* LazyExpr(raw)
Construct ==
    /\ lazy.k = "none"
    /\ lazy' = LazyExpr_init(raw_ast, {})
    /\ UNCHANGED << raw_ast, pvars, rvars, tvars, cvars, hvars >>

(***************************************************************************)
(* Run-time values: [t, n, l, f, s] with t the Python type, n the number   *)
(* (scaled by FloatScale for a float), l the items of a list of ints, f    *)
(* the lambda of a function, s a string's characters (for an exception or  *)
(* a builtin: its name).                                                   *)
(***************************************************************************)
Value(t, n, l, f, s) == [t |-> t, n |-> n, l |-> l, f |-> f, s |-> s]

IntV(n)     == Value("int", n, << >>, NoExpr, << >>)
FloatV(n)   == Value("float", n, << >>, NoExpr, << >>)
ListV(l)    == Value("list", 0, l, NoExpr, << >>)
FnV(node)   == Value("function", 0, << >>, node, << >>)
GenV(l)     == Value("generator", 0, l, NoExpr, << >>)
BuiltinV(b) == Value("builtin", 0, << >>, NoExpr, << b >>)
StrV(s)     == Value("str", 0, << >>, NoExpr, s)
Raise(e)    == Value("err", 0, << >>, NoExpr, << e >>)
\* Python's None as a value
NoneV       == Value("NoneType", 0, << >>, NoExpr, << >>)

IsErr(v)  == v.t = "err"
\* an exception propagates; otherwise the computation F goes on with the
\* value (Result.and_then for the functions that return a Result)
and_then(r, F(_)) == IF IsErr(r) THEN r ELSE F(r)

IsNum(v)  == v.t \in {"int", "float"}
AsFloat(v) == IF v.t = "int" THEN v.n * FloatScale ELSE v.n

\* the names the interpreter finds in the builtins module at run time
PyBuiltins == {"sum", "len"}

RECURSIVE SumSeq(_)
SumSeq(l) == IF l = << >> THEN 0 ELSE Head(l) + SumSeq(Tail(l))

RECURSIVE Repeat(_, _)
Repeat(l, n) == IF n <= 0 THEN << >> ELSE l \o Repeat(l, n - 1)

RECURSIVE Digits(_)
Digits(n) ==
    IF n < 10 THEN << HexDigits[n + 1] >>
    ELSE Digits(n \div 10) \o << HexDigits[(n % 10) + 1] >>

\* format(v, ".2f") for a non-negative number
Format2f(v) ==
    LET cents == (AsFloat(v) + (FloatScale \div 200)) \div (FloatScale \div 100)
    IN  Digits(cents \div 100) \o << "." >>
        \o << HexDigits[((cents \div 10) % 10) + 1], HexDigits[(cents % 10) + 1] >>

\* the binary operators +, * and / of the interpreter
BinOpValue(op, l, r) ==
    IF IsNum(l) /\ IsNum(r)
    THEN CASE op = "+" -> IF l.t = "int" /\ r.t = "int" THEN IntV(l.n + r.n)
                          ELSE FloatV(AsFloat(l) + AsFloat(r))
           [] op = "*" -> IF l.t = "int" /\ r.t = "int" THEN IntV(l.n * r.n)
                          ELSE IF l.t = "int" THEN FloatV(l.n * r.n)
                          ELSE IF r.t = "int" THEN FloatV(l.n * r.n)
                          ELSE FloatV((l.n * r.n) \div FloatScale)
           [] op = "/" -> IF r.n = 0 THEN Raise("ZeroDivisionError")
                          ELSE IF r.t = "int" THEN FloatV(AsFloat(l) \div r.n)
                          ELSE FloatV((AsFloat(l) \div r.n) * FloatScale)
    ELSE IF l.t = "list" /\ r.t = "list" /\ op = "+" THEN ListV(l.l \o r.l)
    ELSE IF l.t = "list" /\ r.t = "int" /\ op = "*" THEN ListV(Repeat(l.l, r.n))
    ELSE IF l.t = "int" /\ r.t = "list" /\ op = "*" THEN ListV(Repeat(r.l, l.n))
    ELSE Raise("TypeError")

\* the body of __lazy_expr evaluated in the globals `g` (name -> value).
\* The lambdas of the modelled expressions refer to their parameter only.
\* eval_node is the value of the expression, eval_effect the objects the
\* names of g are bound to once it has been evaluated: list.append changes
\* the list in place.  The operands of a node are evaluated left to right,
\* each seeing what the ones before it did, up to the first that raises.
RECURSIVE eval_node(_, _)
RECURSIVE eval_effect(_, _)
RECURSIVE effects_all(_, _)
RECURSIVE comprehension(_, _, _)
\* the items a comprehension yields over `items`, its target bound to each
\* in turn; the modelled elements are ints
comprehension(node, items, g) ==
    IF items = << >> THEN ListV(<< >>)
    ELSE and_then(eval_node(node.args[1],
                            (node.id :> IntV(Head(items))) @@ g), LAMBDA v :
         and_then(comprehension(node, Tail(items), g), LAMBDA rest :
             IF v.t # "int" THEN Raise("TypeError")
             ELSE ListV(<< v.n >> \o rest.l)))

Apply(f, a, g) ==
    IF f.t = "builtin"
    THEN IF a.t \notin {"list", "generator"} THEN Raise("TypeError")
         ELSE IF f.s = << "sum" >> THEN IntV(SumSeq(a.l))
         ELSE IF a.t = "generator" THEN Raise("TypeError")
         ELSE IntV(Len(a.l))
    ELSE IF f.t = "function"
    THEN eval_node(f.f.args[1], (f.f.id :> a) @@ g)
    ELSE Raise("TypeError")

eval_node(node, g) ==
    CASE node.k = "Num"    -> IntV(node.n)
      [] node.k = "Float"  -> FloatV(node.n)
      [] node.k = "Name"   ->
            IF node.id \in DOMAIN g THEN g[node.id]
            ELSE IF node.id \in PyBuiltins THEN BuiltinV(node.id)
            ELSE Raise("NameError")
      [] node.k = "BinOp"  ->
            and_then(eval_node(node.args[1], g), LAMBDA l :
            and_then(eval_node(node.args[2], eval_effect(node.args[1], g)),
                     LAMBDA r : BinOpValue(node.id, l, r)))
      [] node.k = "Call"   ->
            and_then(eval_node(node.args[1], g), LAMBDA f :
            and_then(eval_node(node.args[2], eval_effect(node.args[1], g)),
                     LAMBDA a : Apply(f, a, g)))
      [] node.k = "Lambda" -> FnV(node)
      [] node.k \in {"ListComp", "GeneratorExp"} ->
            and_then(eval_node(node.args[2], g), LAMBDA it :
                IF it.t # "list" THEN Raise("TypeError")
                ELSE and_then(comprehension(node, it.l, g), LAMBDA items :
                    IF node.k = "ListComp" THEN items ELSE GenV(items.l)))
      [] node.k = "FormattedValue" ->
            and_then(eval_node(node.args[1], g), LAMBDA v :
                IF IsNum(v) THEN StrV(Format2f(v)) ELSE Raise("TypeError"))
      [] node.k = "CallAppend" ->
            and_then(eval_node(node.args[1], g), LAMBDA obj :
            and_then(eval_node(node.args[2], eval_effect(node.args[1], g)),
                     LAMBDA a :
                IF obj.t # "list" THEN Raise("AttributeError") ELSE NoneV))
      [] OTHER -> Raise("TypeError")

effects_all(nodes, g) ==
    IF nodes = << >> THEN g
    ELSE IF IsErr(eval_node(Head(nodes), g)) THEN eval_effect(Head(nodes), g)
    ELSE effects_all(Tail(nodes), eval_effect(Head(nodes), g))

eval_effect(node, g) ==
    IF node.k = "Lambda" THEN g
    ELSE IF node.k \in {"ListComp", "GeneratorExp"}
    THEN eval_effect(node.args[2], g)
    ELSE IF node.k = "CallAppend"
    THEN With(effects_all(node.args, g), LAMBDA h :
            IF /\ ~IsErr(eval_node(node, g))
               /\ node.args[1].k = "Name"
               /\ node.args[1].id \in DOMAIN h
               /\ eval_node(node.args[2], eval_effect(node.args[1], g)).t = "int"
            THEN [h EXCEPT ![node.args[1].id] =
                      ListV(@.l \o << eval_node(node.args[2],
                                   eval_effect(node.args[1], g)).n >>)]
            ELSE h)
    ELSE effects_all(node.args, g)

\* an environment: the names bound so far and their values
EmptyEnv == [x \in {} |-> IntV(0)]

\* visitor.py: UnboundVariableFinder.MAGIC_FN_NAME
MAGIC_FN_NAME == "__lazy_expr"

\* `_env = {}` binds _env to a new dict, which is not the caller's: the two
\* dicts are the fields env and _env of a heap, and this names the one
\* that _env refers to
new_dict(caller) == "_env"

\* exec(compiled, d): the module body defines __lazy_expr in d, and exec
\* puts __builtins__ there
exec(expr, heap, d) ==
    [heap EXCEPT ![d] = (MAGIC_FN_NAME :> FnV(Lambda("", expr)))
                        @@ ("__builtins__" :> BuiltinV("__builtins__")) @@ @]

\* d.update(src)
update(heap, d, src) == [heap EXCEPT ![d] = heap[src] @@ @]

\* LazyExpr.eval(env): val is what _env[MAGIC_FN_NAME]() returns or raises,
\* env the caller's dict once the call is over, the objects it shares
\* with _env being as the evaluation left them
LazyExpr_eval_frames(expr, env) ==
    With(new_dict("env"), LAMBDA d :
    With(update(exec(expr, [env |-> env, _env |-> EmptyEnv], d), d, "env"),
         LAMBDA heap :
        [val |-> eval_node(heap[d][MAGIC_FN_NAME].f.args[1], heap[d]),
         env |-> [n \in DOMAIN heap.env |->
                     eval_effect(heap[d][MAGIC_FN_NAME].f.args[1], heap[d])[n]]]))

\* LazyExpr.eval(env): _env is a fresh dict, the caller's env is copied
\* into it (_env.update(env)) and __lazy_expr() runs in it
LazyExpr_eval(expr, env) == LazyExpr_eval_frames(expr, env).val

\* LazyExpr.__call__(arg, env=env): evaluate to a function and call it
LazyExpr_call(expr, arg, env) ==
    and_then(LazyExpr_eval(expr, env), LAMBDA fn : Apply(fn, arg, env))

MaxEvals == 2

\* the mappings a caller passes as env
Envs ==
    { EmptyEnv,
      ("x" :> IntV(1)) @@ ("xs" :> ListV(<< 1, 2 >>)),
      ("xs" :> ListV(<< >>)) }

\* lazy.eval(env): the first call takes any env, the later ones the same
\* dict again; env0 keeps what that dict held before the first call
Evaluate ==
    /\ lazy.k \in {"Ok", "evaluated"}
    /\ \E env \in IF lazy.k = "Ok" THEN Envs ELSE { lazy.env } :
       \E r \in { LazyExpr_eval_frames(lazy.expr, env) } :
           lazy' = [k |-> "evaluated", expr |-> lazy.expr,
                    unbound |-> lazy.unbound,
                    evals |-> IF lazy.k = "Ok" THEN 1 ELSE lazy.evals + 1,
                    env0 |-> IF lazy.k = "Ok" THEN env ELSE lazy.env0,
                    env |-> r.env, val |-> r.val]
    /\ (lazy.k = "evaluated" => lazy.evals < MaxEvals)
    /\ UNCHANGED << raw_ast, pvars, rvars, tvars, cvars, hvars >>

NextExpr == Construct \/ Evaluate

SpecExpr == InitExpr /\ [][NextExpr]_vars

(***************************************************************************)
(* Variables (variable/model.py)                                           *)
(***************************************************************************)
\* an exception that wraps the exception `cause`
Wrap(e, cause) == Value("err", 0, << >>, NoExpr, << e >> \o cause.s)

\* a PathVariable's loaded source mapping: key -> list of objects
NoSource == [list |-> << >>]

\* LiteralVariable(name, expr, formatter, t, imports)
LiteralVariable(name, expr, formatter, t, imports) ==
    [name |-> name, kind |-> "literal", expr |-> expr,
     formatter |-> formatter, verifier |-> NoExpr, preprocessor |-> NoExpr,
     t |-> t, source |-> NoSource, json_path |-> << >>, imports |-> imports]

\* PathVariable(name, source, json_path, formatter, verifier, preprocessor, t)
PathVariable(name, source, json_path, formatter, verifier, pre, t, imports) ==
    [name |-> name, kind |-> "path", expr |-> NoExpr,
     formatter |-> formatter, verifier |-> verifier,
     preprocessor |-> pre,
     t |-> t, source |-> source, json_path |-> json_path, imports |-> imports]

OptUnbound(expr, imports) ==
    IF expr = NoExpr THEN {} ELSE unbound(expr, imports)

\* IVariable.unbound
Variable_unbound(v) ==
    IF v.kind = "literal" THEN OptUnbound(v.expr, v.imports)
    ELSE OptUnbound(v.formatter, v.imports)
         \cup OptUnbound(v.verifier, v.imports)
         \cup OptUnbound(v.preprocessor, v.imports)

\* typeguard.check_type(val, t); t = "" is None (no expected type); an int
\* is accepted where a float is expected
check_type(val, t) ==
    \/ t = ""
    \/ val.t = t
    \/ (t = "float" /\ val.t = "int")

\* bool(value)
Truthy(v) ==
    CASE v.t \in {"int", "float"} -> v.n # 0
      [] v.t = "list" -> v.l # << >>
      [] v.t = "str" -> v.s # << >>
      [] v.t = "NoneType" -> FALSE
      [] OTHER -> TRUE

\* _common_preprocess_impl: Ok(value) or Err(exception)
_common_preprocess_impl(val, preprocessor, env) ==
    IF preprocessor # NoExpr THEN LazyExpr_call(preprocessor, val, env)
    ELSE val

\* _common_verify_impl: the value, Err(exception), or (a verifier that
\* raises) the exception propagating out of load, marked "raised"
_common_verify_impl(val, verifier, t, env) ==
    With(IF verifier # NoExpr THEN LazyExpr_call(verifier, val, env)
         ELSE IntV(1),
         LAMBDA ok :
        IF IsErr(ok) THEN Wrap("raised", ok)
        ELSE IF ~Truthy(ok) THEN Raise("ValueError")
        ELSE IF ~check_type(val, t) THEN Raise("TypeCheckError")
        ELSE val)

\* jsonpath_ng: parse(json_path) fails unless the path is `$` followed by
\* steps; find() returns the matches in document order.  Paths are kept as
\* their steps, << "$", key, "*", field >> standing for $.key[*].field
JsonPathParses(path) ==
    /\ Len(path) >= 1
    /\ path[1] = "$"
    /\ \A i \in 2..Len(path) : path[i] # "["

RECURSIVE FieldOfEach(_, _)
FieldOfEach(items, field) ==
    IF items = << >> THEN << >>
    ELSE (IF field \in DOMAIN Head(items)
          THEN << IntV(Head(items)[field]) >> ELSE << >>)
         \o FieldOfEach(Tail(items), field)

find(path, mapping) ==
    IF Len(path) = 4 /\ path[3] = "*" /\ path[2] \in DOMAIN mapping
    THEN FieldOfEach(mapping[path[2]], path[4])
    ELSE << >>

\* PathVariable._load_unchecked
PathVariable_load_unchecked(v) ==
    IF ~JsonPathParses(v.json_path) THEN Raise("JsonPathParserError")
    ELSE LET match == find(v.json_path, v.source)
         IN  IF match = << >> THEN Raise("ValueError")
             ELSE match[1]

\* IVariable.load(env): the value, or an "err" value
Variable_load(v, env) ==
    With(IF v.kind = "literal"
         THEN and_then(LazyExpr_eval(v.expr, env), LAMBDA x :
                  _common_verify_impl(x, NoExpr, v.t, env))
         ELSE and_then(and_then(PathVariable_load_unchecked(v), LAMBDA x :
                  _common_preprocess_impl(x, v.preprocessor, env)), LAMBDA x :
                  _common_verify_impl(x, v.verifier, v.t, env)),
         LAMBDA res :
        IF IsErr(res) /\ res.s[1] = "raised" THEN res
        ELSE IF IsErr(res) THEN Wrap("ValueError", res) ELSE res)

\* _common_eval_formatter: None, the callable, or the exception raised
_common_eval_formatter(formatter, env) ==
    IF formatter = NoExpr THEN NoneV
    ELSE and_then(LazyExpr_eval(formatter, env), LAMBDA f :
             IF f.t \in {"function", "builtin"} THEN f
             ELSE Raise("ValueError"))

(***************************************************************************)
(* networkx.DiGraph: the nodes in insertion order and, for each node, its  *)
(* successors in insertion order                                           *)
(***************************************************************************)
EmptyGraph == [nodes |-> << >>, adj |-> [x \in {} |-> << >>]]

InSeq(x, seq) == \E i \in 1..Len(seq) : seq[i] = x

add_node(G, n) ==
    IF InSeq(n, G.nodes) THEN G
    ELSE [nodes |-> Append(G.nodes, n), adj |-> (n :> << >>) @@ G.adj]

add_edge(G, u, v) ==
    LET G2 == add_node(add_node(G, u), v)
    IN  IF InSeq(v, G2.adj[u]) THEN G2
        ELSE [G2 EXCEPT !.adj[u] = Append(@, v)]

\* G.in_degree(n)
in_degree(G, n) == Cardinality({ u \in DOMAIN G.adj : InSeq(n, G.adj[u]) })

RECURSIVE SelectSeq2(_, _, _)
\* [x for x in seq if P[x]] with P given as the set of accepted elements
SelectSeq2(seq, S, acc) ==
    IF seq = << >> THEN acc
    ELSE SelectSeq2(Tail(seq), S,
                    IF Head(seq) \in S THEN Append(acc, Head(seq)) ELSE acc)

RECURSIVE Children(_, _)
\* the (node, child) visits of one generation, in visiting order
Children(G, generation) ==
    IF generation = << >> THEN << >>
    ELSE G.adj[Head(generation)] \o Children(G, Tail(generation))

RECURSIVE Decrement(_, _, _)
\* for child in ...: indegree_map[child] -= 1; if it is 0, the child joins
\* the next generation and leaves the map
Decrement(children, indegree_map, zero_indegree) ==
    IF children = << >>
    THEN [indegree_map |-> indegree_map, zero_indegree |-> zero_indegree]
    ELSE LET c == Head(children)
             d == indegree_map[c] - 1
         IN  Decrement(Tail(children), [indegree_map EXCEPT ![c] = d],
                       IF d = 0 THEN Append(zero_indegree, c)
                       ELSE zero_indegree)

RECURSIVE Generations(_, _, _, _)
Generations(G, zero_indegree, indegree_map, out) ==
    IF zero_indegree = << >>
    THEN [order |-> out,
          unfeasible |-> \E n \in DOMAIN indegree_map : indegree_map[n] > 0]
    ELSE LET r == Decrement(Children(G, zero_indegree), indegree_map, << >>)
         IN  Generations(G, r.zero_indegree, r.indegree_map,
                         out \o zero_indegree)

\* list(nx.topological_sort(G)): the generations of Kahn's algorithm, one
\* after the other; unfeasible when a cycle keeps some in-degree positive
topological_sort(G) ==
    LET deg  == [n \in DOMAIN G.adj |-> in_degree(G, n)]
        zero == SelectSeq2(G.nodes, { n \in DOMAIN G.adj : deg[n] = 0 }, << >>)
    IN  Generations(G, zero, deg, << >>)

(***************************************************************************)
(* DependencyResolver (dependency/resolver.py)                             *)
(***************************************************************************)
RECURSIVE Reverse(_)
Reverse(seq) == IF seq = << >> THEN << >> ELSE Append(Reverse(Tail(seq)), Head(seq))

IndexOf(x, seq) == CHOOSE i \in 1..Len(seq) : seq[i] = x /\ \A j \in 1..(i - 1) : seq[j] # x

Names(tbl) == [i \in 1..Len(tbl) |-> tbl[i].name]

RECURSIVE add_edges(_, _, _)
\* for unbound in variable.unbound: graph.add_edge(variable.name, unbound)
add_edges(G, name, order) ==
    IF order = << >> THEN G
    ELSE add_edges(add_edge(G, name, Head(order)), name, Tail(order))

\* the orders in which a set can be iterated
Orders(S) ==
    { o \in [1..Cardinality(S) -> S] : \A i, j \in 1..Cardinality(S) : i # j => o[i] # o[j] }

\* add without the test for a name that is taken
Resolver_add_unchecked(tbl, G, variable, order) ==
    [k |-> "Ok", table |-> Append(tbl, variable),
     graph |-> add_edges(add_node(G, variable.name), variable.name, order)]

\* DependencyResolver.add: `order` is the iteration order of the set
\* variable.unbound
Resolver_add(tbl, G, variable, order) ==
    IF InSeq(variable.name, Names(tbl))
    THEN [k |-> "DuplicateName", table |-> tbl, graph |-> G]
    ELSE [k |-> "Ok", table |-> Append(tbl, variable),
          graph |-> add_edges(add_node(G, variable.name), variable.name, order)]

\* the set-iteration orders of the variables' unbound sets
AllOrders(vs) ==
    { os \in [1..Len(vs) -> UNION { Orders(Variable_unbound(vs[i])) : i \in 1..Len(vs) }] :
        \A i \in 1..Len(vs) : os[i] \in Orders(Variable_unbound(vs[i])) }

RECURSIVE add_many_keeps_going(_, _, _, _)
\* add_many that goes on after an add that failed
add_many_keeps_going(tbl, G, vs, orders) ==
    IF vs = << >> THEN [k |-> "Ok", table |-> tbl, graph |-> G]
    ELSE With(Resolver_add(tbl, G, Head(vs), Head(orders)), LAMBDA r :
             add_many_keeps_going(r.table, r.graph, Tail(vs), Tail(orders)))

RECURSIVE add_many(_, _, _, _)
\* DependencyResolver.add_many; orders[i] is the iteration order of the
\* unbound set of the i-th variable
add_many(tbl, G, vs, orders) ==
    IF vs = << >> THEN [k |-> "Ok", table |-> tbl, graph |-> G]
    ELSE With(Resolver_add(tbl, G, Head(vs), Head(orders)), LAMBDA r :
             IF r.k # "Ok" THEN r
             ELSE add_many(r.table, r.graph, Tail(vs), Tail(orders)))

\* the membership test with its operands swapped
invalid_names_swapped(nodes, valid_names) ==
    SelectSeq2(valid_names,
               { n \in { valid_names[i] : i \in 1..Len(valid_names) } :
                   ~InSeq(n, nodes) }, << >>)

RECURSIVE invalid_names(_, _)
\* filter(lambda x: x not in valid_names, graph.nodes) where valid_names is
\* the iterator map(...) over the table: each `in` test consumes the
\* iterator up to and including the first match, or to its end
invalid_names(nodes, valid_names) ==
    IF nodes = << >> THEN << >>
    ELSE IF InSeq(Head(nodes), valid_names)
    THEN invalid_names(Tail(nodes),
                       SubSeq(valid_names, IndexOf(Head(nodes), valid_names) + 1,
                              Len(valid_names)))
    ELSE << Head(nodes) >> \o invalid_names(Tail(nodes), << >>)

index_map_not_reversed(topological) ==
    [n \in { topological[i] : i \in 1..Len(topological) } |->
        IndexOf(n, topological) - 1]

\* enumerate(reversed(topological)): name -> index
index_map(topological) ==
    [n \in { topological[i] : i \in 1..Len(topological) } |->
        IndexOf(n, Reverse(topological)) - 1]

RECURSIVE Insert(_, _, _)
Insert(sorted, x, key) ==
    IF sorted = << >> THEN << x >>
    ELSE IF key[x.name] < key[Head(sorted).name] THEN << x >> \o sorted
    ELSE << Head(sorted) >> \o Insert(Tail(sorted), x, key)

RECURSIVE SortedBy(_, _)
\* sorted(variables, key=...): stable, ascending
SortedBy(vs, key) ==
    IF vs = << >> THEN << >>
    ELSE Insert(SortedBy(SubSeq(vs, 1, Len(vs) - 1), key), vs[Len(vs)], key)

\* the table left in the order of the adds
_sort_by_topological_skipped(vs, topological) == vs

_sort_by_topological(vs, topological) ==
    SortedBy(vs, index_map(topological))

\* a resolve that sorts the table before it looks for unbound names
Resolver_resolve_sorts_first(tbl, G) ==
    With(topological_sort(G), LAMBDA topo :
    With(IF topo.unfeasible THEN tbl
         ELSE _sort_by_topological(tbl, topo.order), LAMBDA sorted :
    With(invalid_names(G.nodes, Names(tbl)), LAMBDA invalid :
        IF Len(invalid) > 0
        THEN [k |-> "Unbound", names |-> invalid, table |-> sorted]
        ELSE IF topo.unfeasible
        THEN [k |-> "Cyclic", names |-> << >>, table |-> tbl]
        ELSE [k |-> "Ok", names |-> << >>, table |-> sorted])))

\* DependencyResolver.resolve
Resolver_resolve(tbl, G) ==
    With(invalid_names(G.nodes, Names(tbl)), LAMBDA invalid :
        IF Len(invalid) > 0
        THEN [k |-> "Unbound", names |-> invalid, table |-> tbl]
        ELSE With(topological_sort(G), LAMBDA topo :
                IF topo.unfeasible
                THEN [k |-> "Cyclic", names |-> << >>, table |-> tbl]
                ELSE [k |-> "Ok", names |-> << >>,
                      table |-> _sort_by_topological(tbl, topo.order)]))

EvaluatedVariable(name, value, formatter) ==
    [name |-> name, value |-> value, formatter |-> formatter]

register_nothing(env, name, val) == env

\* env[var.name] = val
register(env, name, val) == (name :> val) @@ env

RECURSIVE eval_vars(_, _, _, _)
\* one call of var.load(env=env): the env it was given and, when
\* var.eval_formatter(env=env) was reached, the env that one was given
LoadCall(name, env, formatted, formatter_env) ==
    [name |-> name, env |-> env, formatted |-> formatted,
     formatter_env |-> formatter_env]

\* [eval_var(var) for var in self._table]: `loads` records the calls of
\* load.  An Err returned by load is raised as
\* RuntimeError("failed to evaluate variable `name`", cause); an exception
\* that load itself raises leaves eval as it is, with no name attached
eval_vars(tbl, env, acc, called) ==
    IF tbl = << >>
    THEN [k |-> "Ok", var |-> "", cause |-> NoneV, evaluated |-> acc,
          env |-> env, loads |-> called]
    ELSE
      With(Head(tbl), LAMBDA var :
      With(Variable_load(var, env), LAMBDA value :
        IF IsErr(value) /\ value.s[1] = "raised"
        THEN [k |-> "Raised", var |-> "", cause |-> value,
              evaluated |-> << >>, env |-> env,
              loads |-> Append(called,
                               LoadCall(var.name, env, FALSE, EmptyEnv))]
        ELSE IF IsErr(value)
        THEN [k |-> "LoadFailed", var |-> var.name, cause |-> value,
              evaluated |-> << >>, env |-> env,
              loads |-> Append(called,
                               LoadCall(var.name, env, FALSE, EmptyEnv))]
        ELSE
          With(register(env, var.name, value), LAMBDA env2 :
          With(_common_eval_formatter(var.formatter, env2), LAMBDA formatter :
            IF IsErr(formatter)
            THEN [k |-> "FormatterFailed", var |-> var.name,
                  cause |-> formatter, evaluated |-> << >>, env |-> env2,
                  loads |-> Append(called,
                                   LoadCall(var.name, env, TRUE, env2))]
            ELSE eval_vars(Tail(tbl), env2,
                           Append(acc, EvaluatedVariable(var.name, value,
                                                         formatter)),
                           Append(called,
                                  LoadCall(var.name, env, TRUE, env2)))))))

\* DependencyResolver.eval: resolve, then evaluate in table order
Resolver_eval(tbl, G) ==
    With(Resolver_resolve(tbl, G), LAMBDA r :
        IF r.k # "Ok"
        THEN [k |-> r.k, names |-> r.names, table |-> tbl, var |-> "",
              cause |-> NoneV, evaluated |-> << >>, env |-> EmptyEnv,
              loads |-> << >>]
        ELSE With(eval_vars(r.table, EmptyEnv, << >>, << >>), LAMBDA e :
                [k |-> e.k, names |-> << >>, table |-> r.table,
                 var |-> e.var, cause |-> e.cause,
                 evaluated |-> e.evaluated, env |-> e.env,
                 loads |-> e.loads]))

(***************************************************************************)
(* The resolver driven through its interface: add, resolve, eval           *)
(***************************************************************************)
Idents == << "a", "b", "c", "missing" >>

\* the names a variable is declared under ("missing" is never declared)
VarNames == {"a", "b", "c"}

\* 1 + 2,  n * 10,  n + k,  1 / 0
ResolverExprs ==
    { BinOp(Num(1), "+", Num(2)), BinOp(Num(1), "/", Num(0)) }
    \cup { BinOp(Name(Idents[i]), "*", Num(10)) : i \in 1..Len(Idents) }
    \cup { BinOp(Name(Idents[p[1]]), "+", Name(Idents[p[2]])) :
             p \in { q \in (1..Len(Idents)) \X (1..Len(Idents)) : q[1] < q[2] } }

\* $.list[*].age of a loaded source, with verifier `lambda x: x / 0`
VerifiedAges ==
    PathVariable("c", [list |-> << [age |-> 10] >>],
                 << "$", "list", "*", "age" >>, NoExpr,
                 Lambda("x", BinOp(Name("x"), "/", Num(0))), NoExpr, "", {})

ResolverVars ==
    { LiteralVariable(n, e, NoExpr, "", {}) : n \in VarNames, e \in ResolverExprs }
    \cup { VerifiedAges }

Ret(op, k, names, var, cause) ==
    [op |-> op, k |-> k, names |-> names, var |-> var, cause |-> cause]

InitResolver ==
    /\ _table = << >>
    /\ _graph = EmptyGraph
    /\ ret = Ret("init", "Ok", << >>, "", NoneV)
    /\ evaluated = << >>
    /\ loads = << >>

\* one call of add(variable); a name that is taken is refused whatever the
\* variable holds, so one variable stands for all that carry that name
AddArguments ==
    { v \in ResolverVars :
        InSeq(v.name, Names(_table)) => v.expr = BinOp(Num(1), "+", Num(2)) }

Add ==
    /\ Len(_table) < MaxVars
    /\ \E v \in AddArguments : \E order \in Orders(Variable_unbound(v)) :
         \E r \in { Resolver_add(_table, _graph, v, order) } :
             /\ _table' = r.table
             /\ _graph' = r.graph
             /\ ret' = Ret("add", r.k, << >>, v.name, NoneV)
    /\ evaluated' = << >>
    /\ loads' = << >>
    /\ UNCHANGED << pvars, tvars, evars, cvars, hvars >>

Resolve ==
    /\ \E r \in { Resolver_resolve(_table, _graph) } :
           /\ _table' = r.table
           /\ ret' = Ret("resolve", r.k, r.names, "", NoneV)
    /\ evaluated' = << >>
    /\ loads' = << >>
    /\ UNCHANGED << _graph, pvars, tvars, evars, cvars, hvars >>

Eval ==
    /\ \E r \in { Resolver_eval(_table, _graph) } :
           /\ _table' = r.table
           /\ ret' = Ret("eval", r.k, r.names, r.var, r.cause)
           /\ evaluated' = r.evaluated
           /\ loads' = r.loads
    /\ UNCHANGED << _graph, pvars, tvars, evars, cvars, hvars >>

\* the variables add_many is called with: 1 + 2 and a * 10 under each name
AddManyVars ==
    { v \in ResolverVars :
        v.kind = "literal" /\ v.expr \in { BinOp(Num(1), "+", Num(2)),
                                            BinOp(Name("a"), "*", Num(10)) } }

\* one call of add_many(vs); ret.names are the names of vs, ret.var the name
\* of the variable whose add failed
AddMany ==
    /\ \E n \in 1..(MaxVars - Len(_table)) : \E vs \in [1..n -> AddManyVars] :
         \E orders \in AllOrders(vs) :
         \E r \in { add_many(_table, _graph, vs, orders) } :
             /\ _table' = r.table
             /\ _graph' = r.graph
             /\ ret' = Ret("add_many", r.k, Names(vs),
                           IF r.k = "Ok" THEN ""
                           ELSE vs[Len(r.table) - Len(_table) + 1].name, NoneV)
    /\ evaluated' = << >>
    /\ loads' = << >>
    /\ UNCHANGED << pvars, tvars, evars, cvars, hvars >>

NextResolver == Add \/ AddMany \/ Resolve \/ Eval

Init ==
    InitResolver /\ InitParseIdle /\ IdleTemplate /\ IdleExpr /\ IdleTasks
    /\ IdleLoad

Spec == Init /\ [][NextResolver]_vars

(***************************************************************************)
(* Content (content/__init__.py)                                           *)
(***************************************************************************)
\* HtmlContent.eval_result: extract() runs the extractor on the content; an
\* extractor error is raised as it is.  On Ok, establish_expr reads
\* `ParseResult.table`, an attribute of the class and not of parse_result:
\* the model class has no attribute for the field, so AttributeError is
\* raised before any expression is built or any text is rendered
HtmlContent_eval_result(c, evaluated_vars, imports) ==
    With(parse(c.content), LAMBDA r :
        IF r.k # "Ok" THEN Raise(r.k) ELSE Raise("AttributeError"))

RECURSIVE eval_contents(_, _, _, _)
\* [c.eval_result(evaluated_vars, imports) for c in contents]
eval_contents(contents, evaluated_vars, imports, acc) ==
    IF contents = << >> THEN [k |-> "Ok", content |-> acc, cause |-> NoneV]
    ELSE With(HtmlContent_eval_result(Head(contents), evaluated_vars, imports),
              LAMBDA r :
             IF IsErr(r) THEN [k |-> "Raised", content |-> << >>, cause |-> r]
             ELSE eval_contents(Tail(contents), evaluated_vars, imports,
                                Append(acc, r)))

(***************************************************************************)
(* HtmlParseResult.load (content/__init__.py): `self` is a record          *)
(* [text_with_hash, exprs]; exprs keeps the items of the dict in insertion *)
(* order as records [name, expr]; names and texts are character sequences  *)
(***************************************************************************)
RECURSIVE to_env_dict(_)
\* {var.name: var.value for var in variables}
to_env_dict(vs) ==
    IF vs = << >> THEN EmptyEnv
    ELSE (vs[Len(vs)].name :> vs[Len(vs)].value)
         @@ to_env_dict(SubSeq(vs, 1, Len(vs) - 1))

RECURSIVE formatters(_)
\* {var.name: var.formatter for var in evaluated if var.formatter is not None}
formatters(vs) ==
    IF vs = << >> THEN EmptyEnv
    ELSE IF vs[Len(vs)].formatter = NoneV
    THEN formatters(SubSeq(vs, 1, Len(vs) - 1))
    ELSE (vs[Len(vs)].name :> vs[Len(vs)].formatter)
         @@ formatters(SubSeq(vs, 1, Len(vs) - 1))

RECURSIVE StripZeros(_)
StripZeros(d) ==
    IF Len(d) > 1 /\ d[Len(d)] = "0" THEN StripZeros(SubSeq(d, 1, Len(d) - 1))
    ELSE d

\* the decimals of a float, without the trailing zeros
Decimals(n) ==
    StripZeros([i \in 1..5 |-> HexDigits[((n \div (10 ^ (5 - i))) % 10) + 1]])

\* str(val) of a non-negative number or a string
str(val) ==
    CASE val.t = "int"   -> Digits(val.n)
      [] val.t = "float" -> Digits(val.n \div FloatScale) \o << "." >>
                            \o Decimals(val.n % FloatScale)
      [] val.t = "str"   -> val.s
      [] OTHER           -> << "<", val.t, ">" >>

RECURSIVE replace(_, _, _)
\* str.replace(old, new), old not empty
replace(s, old, new) ==
    IF Len(s) < Len(old) THEN s
    ELSE IF SubSeq(s, 1, Len(old)) = old
    THEN new \o replace(SubSeq(s, Len(old) + 1, Len(s)), old, new)
    ELSE << Head(s) >> \o replace(Tail(s), old, new)

\* LazyExpr.solely_dependency returns self._finder.solely_dependency, and
\* UnboundVariableFinder defines no such attribute: AttributeError
LazyExpr_solely_dependency(expr) == Raise("AttributeError")

\* isinstance(val, t) for the classes of the values: bool is a subclass of int
isinstance(val, t) == val.t = t \/ (val.t = "bool" /\ t = "int")

\* the formatter the loop of replace_exprs settles on for one expression:
\* formatters.get(dep) when dep is not None, env.get(dep) is not None and
\* isinstance(val, type(dep_val)); None otherwise
formatter_of(val, dep, env, fmts) ==
    IF dep = NoneV THEN NoneV
    ELSE IF dep.s[1] \notin DOMAIN env THEN NoneV
    ELSE IF env[dep.s[1]] = NoneV THEN NoneV
    ELSE IF ~isinstance(val, env[dep.s[1]].t) THEN NoneV
    ELSE IF dep.s[1] \in DOMAIN fmts THEN fmts[dep.s[1]]
    ELSE NoneV

\* formatter(val) if formatter else str(val)
formatted(val, formatter) ==
    IF formatter # NoneV THEN Apply(formatter, val, EmptyEnv)
    ELSE StrV(str(val))

RECURSIVE replace_exprs(_, _, _, _)
\* the loop of replace_exprs over self.exprs.items(); an exception leaves it
replace_exprs(mut_text, exprs, env, fmts) ==
    IF exprs = << >> THEN StrV(mut_text)
    ELSE and_then(LazyExpr_eval(Head(exprs).expr, env), LAMBDA val :
         and_then(LazyExpr_solely_dependency(Head(exprs).expr), LAMBDA dep :
         and_then(formatted(val, formatter_of(val, dep, env, fmts)), LAMBDA new :
             IF new.t # "str" THEN Raise("TypeError")
             ELSE replace_exprs(
                      replace(mut_text,
                              << "#" >> \o Head(exprs).name \o << "#" >>,
                              new.s),
                      Tail(exprs), env, fmts))))

\* HtmlParseResult.load(evaluated)
HtmlParseResult_load(self, vs) ==
    replace_exprs(self.text_with_hash, self.exprs,
                  to_env_dict(vs), formatters(vs))

MaxEvaluated == 2

\* lambda v: f'{v:.2f}'
Formatter2f == FnV(Lambda("v", FormattedValue(Name("v"), ".2f")))

\* the evaluated variables d and e, an int or a float, with or without
\* a formatter
EvaluatedLists ==
    UNION { [1..n -> { EvaluatedVariable(name, value, formatter) :
                         name \in {"d", "e"},
                         value \in {IntV(3), FloatV(314159)},
                         formatter \in {NoneV, Formatter2f} }] :
            n \in 0..MaxEvaluated }

\* `x`, `#t#` and `a#t##t#` with no expression or with the expression t,
\* one of d, d + 1, d / 2, 7, q
HtmlParseResults ==
    { [text_with_hash |-> tx, exprs |-> es] :
        tx \in { << "x" >>, << "#", "t", "#" >>,
                 << "a", "#", "t", "#", "#", "t", "#" >> },
        es \in { << >> } \cup
               { << [name |-> << "t" >>, expr |-> e] >> :
                   e \in { Name("d"), BinOp(Name("d"), "+", Num(1)),
                           BinOp(Name("d"), "/", Num(2)),
                           Num(7), Name("q") } } }

InitLoad ==
    /\ html_parse_result \in HtmlParseResults
    /\ load_evaluated \in EvaluatedLists
    /\ rendered = [k |-> "none"]
    /\ InitParseIdle /\ IdleResolver /\ IdleTemplate /\ IdleExpr /\ IdleTasks

\* html_parse_result.load(load_evaluated)
Load ==
    /\ rendered.k = "none"
    /\ rendered' =
           [k |-> "returned",
            val |-> HtmlParseResult_load(html_parse_result, load_evaluated)]
    /\ UNCHANGED << html_parse_result, load_evaluated,
                    pvars, rvars, tvars, evars, cvars >>

SpecLoad == InitLoad /\ [][Load]_vars

(***************************************************************************)
(* Orchestrator (template/__init__.py, unmarshal_variable)                 *)
(***************************************************************************)
\* resolve_and_evaluate(variables)
resolve_and_evaluate(vs, orders) ==
    With(add_many(<< >>, EmptyGraph, vs, orders), LAMBDA a :
        IF a.k # "Ok"
        THEN [k |-> a.k, names |-> << >>, table |-> a.table, var |-> "",
              cause |-> NoneV, evaluated |-> << >>, env |-> EmptyEnv,
              loads |-> << >>]
        ELSE Resolver_eval(a.table, a.graph))

\* dict.pop(key)
Pop(d, key) == [x \in (DOMAIN d) \ {key} |-> d[x]]

Optional(d, key) == IF key \in DOMAIN d THEN d[key] ELSE NoExpr

Users == [list |-> << [age |-> 10], [age |-> 20], [age |-> 30] >>]

\* data source descriptors: a dict source loads without suspending and
\* cannot fail; an api source suspends and may fail
SourceUsers  == [source_type |-> "dict", name |-> "users", data |-> Users]
SourceRemote == [source_type |-> "api", name |-> "remote", url |-> "u"]

\* variable entries of the template document; expressions are given as the
\* trees ast.parse builds for the text in the comment
EntryA == [name |-> "a", expr |-> BinOp(Num(1), "+", Num(2))]           \* 1 + 2
EntryB == [name |-> "b", expr |-> BinOp(Name("a"), "*", Num(10))]       \* a * 10
EntryC == [name |-> "c", expr |-> BinOp(Name("a"), "+", Name("b"))]     \* a + b
EntryX == [name |-> "x", expr |-> BinOp(Name("y"), "+", Num(1))]        \* y+1
EntryY == [name |-> "y", expr |-> BinOp(Name("x"), "+", Num(1))]        \* x+1
EntryAMissing ==
    [name |-> "a", expr |-> BinOp(Name("missing"), "+", Num(1))]        \* missing + 1
\* 3.14159 with formatter lambda v: f'{v:.2f}'
EntryPi ==
    [name |-> "pi", expr |-> Float(314159),
     formatter |-> Lambda("v", FormattedValue(Name("v"), ".2f"))]
\* $.list[*].age of source users
EntryAges ==
    [name |-> "ages", source |-> "users",
     json_path |-> << "$", "list", "*", "age" >>]
\* sum(ages)/len(ages)
EntryMean ==
    [name |-> "mean",
     expr |-> BinOp(Call(Name("sum"), Name("ages")), "/",
                    Call(Name("len"), Name("ages")))]
EntryRemote ==
    [name |-> "b", source |-> "remote",
     json_path |-> << "$", "list", "*", "age" >>]
EntryInvalid == [name |-> "c"]

ScenarioA == << EntryA, EntryB, EntryC >>
ScenarioB == << EntryX, EntryY >>
ScenarioC == << EntryAMissing >>
ScenarioDVars == << EntryPi >>
ScenarioE == << EntryAges, EntryMean >>

Entries ==
    { EntryA, EntryB, EntryC, EntryX, EntryY, EntryAMissing, EntryPi,
      EntryAges, EntryMean, EntryRemote, EntryInvalid }

HtmlD == [tag |-> "p", content |-> ScenarioD, style |-> << >>]
HtmlPlain == [tag |-> "p", content |-> << "x" >>, style |-> << >>]

Templates ==
    { [imports |-> {}, data_sources |-> ds, variables |-> vs, content |-> cs] :
        ds \in { << >>, << SourceUsers, SourceRemote >> },
        vs \in UNION { [1..n -> Entries] : n \in 0..MaxEntries }
               \cup { ScenarioA, ScenarioE },
        cs \in { << >>, << HtmlD >>, << HtmlPlain >> } }

Response(k, vs, cs, cause) ==
    [k |-> k, variables |-> vs, content |-> cs, cause |-> cause]

InitTemplate ==
    /\ request \in Templates
    /\ data = request
    /\ pc = "start"
    /\ loaded = [x \in {} |-> NoSource]
    /\ variables = << >>
    /\ response = Response("none", << >>, << >>, NoneV)
    /\ load_calls = << >>

\* the entry unmarshal_variable is called with next
NextEntry == data.variables[Len(variables) + 1]

SourceNamed(source_name) ==
    { i \in 1..Len(data.data_sources) : data.data_sources[i].name = source_name }

\* up to the first variable: `if len(variables_) == 0: raise ValueError`
TStart ==
    /\ pc = "start"
    /\ UNCHANGED << pvars, rvars, evars, cvars, hvars >>
    /\ IF Len(data.variables) = 0
       THEN /\ pc' = "done"
            /\ response' = Response("Raised", << >>, << >>, Raise("ValueError"))
       ELSE /\ pc' = "vars"
            /\ UNCHANGED response
    /\ UNCHANGED << request, data, loaded, variables, load_calls >>

\* global_imports()
global_imports == __global_imports__

\* _preprocess_expressions: imports = [*inst_imports, *global_imports()]
all_imports(inst_imports) == inst_imports \cup global_imports

\* a cache that is never consulted
in_loaded_sources_never(loaded_sources, source_name) == FALSE

\* try_load: `loaded_sources is not None and source_name in loaded_sources`
in_loaded_sources(loaded_sources, source_name) ==
    source_name \in DOMAIN loaded_sources

\* PathVariable(source=source, **variable, imports=imports) after
\* variable.pop("source")
BuildPathVariable(entry, source, imports) ==
    PathVariable(entry.name, source, entry.json_path,
                 Optional(entry, "formatter"), Optional(entry, "verifier"),
                 Optional(entry, "preprocessor"), "", imports)

\* unmarshal_variable for an entry that needs no suspension: a literal, an
\* invalid entry, a path variable whose source is cached, is missing, or is
\* a dict source
TUnmarshal ==
    /\ pc = "vars"
    /\ UNCHANGED << pvars, rvars, evars, cvars, hvars >>
    /\ Len(variables) < Len(data.variables)
    /\ LET entry == NextEntry
           i     == Len(variables) + 1
       IN  IF "expr" \in DOMAIN entry
           THEN /\ variables' = Append(variables,
                       LiteralVariable(entry.name, entry.expr,
                                       Optional(entry, "formatter"), "",
                                       all_imports(data.imports)))
                /\ UNCHANGED << request, data, pc, loaded, response, load_calls >>
           ELSE IF "source" \notin DOMAIN entry
           THEN /\ pc' = "done"
                /\ response' = Response("Raised", << >>, << >>, Raise("ValueError"))
                /\ UNCHANGED << request, data, loaded, variables, load_calls >>
           ELSE IF in_loaded_sources(loaded, entry.source)
           THEN /\ variables' = Append(variables,
                       BuildPathVariable(entry, loaded[entry.source],
                                         all_imports(data.imports)))
                /\ data' = [data EXCEPT !.variables[i] = Pop(entry, "source")]
                /\ UNCHANGED << request, pc, loaded, response, load_calls >>
           ELSE IF SourceNamed(entry.source) = {}
           THEN /\ pc' = "done"
                /\ response' = Response("Raised", << >>, << >>, Raise("ValueError"))
                /\ UNCHANGED << request, data, loaded, variables, load_calls >>
           ELSE LET src == data.data_sources[CHOOSE j \in SourceNamed(entry.source) :
                               \A h \in SourceNamed(entry.source) : j <= h]
                IN  /\ src.source_type = "dict"
                    /\ load_calls' = Append(load_calls, src.name)
                    /\ loaded' = (src.name :> src.data) @@ loaded
                    /\ variables' = Append(variables,
                           BuildPathVariable(entry, src.data,
                                             all_imports(data.imports)))
                    /\ data' = [data EXCEPT !.variables[i] = Pop(entry, "source")]
                    /\ UNCHANGED << request, pc, response >>

\* try_load reaches `await source.load_async()` of an api source
TAwaitLoad ==
    /\ pc = "vars"
    /\ UNCHANGED << pvars, rvars, evars, cvars, hvars >>
    /\ Len(variables) < Len(data.variables)
    /\ "expr" \notin DOMAIN NextEntry
    /\ "source" \in DOMAIN NextEntry
    /\ ~in_loaded_sources(loaded, NextEntry.source)
    /\ \E j \in SourceNamed(NextEntry.source) :
         /\ \A h \in SourceNamed(NextEntry.source) : j <= h
         /\ data.data_sources[j].source_type = "api"
         /\ load_calls' = Append(load_calls, data.data_sources[j].name)
    /\ pc' = "await"
    /\ UNCHANGED << request, data, loaded, variables, response >>

\* load_async returns Ok(mapping): cache it, pop "source", build the variable
TLoadOk ==
    /\ pc = "await"
    /\ UNCHANGED << pvars, rvars, evars, cvars, hvars >>
    /\ LET entry == NextEntry
           i     == Len(variables) + 1
       IN  /\ loaded' = (entry.source :> Users) @@ loaded
           /\ variables' = Append(variables,
                  BuildPathVariable(entry, Users,
                                    all_imports(data.imports)))
           /\ data' = [data EXCEPT !.variables[i] = Pop(entry, "source")]
    /\ pc' = "vars"
    /\ UNCHANGED << request, response, load_calls >>

\* load_async returns Err: RuntimeError("Failed to load data source ...")
TLoadErr ==
    /\ pc = "await"
    /\ UNCHANGED << pvars, rvars, evars, cvars, hvars >>
    /\ pc' = "done"
    /\ response' = Response("Raised", << >>, << >>, Raise("RuntimeError"))
    /\ UNCHANGED << request, data, loaded, variables, load_calls >>

\* a response that names the first variable only
NameValuePairs_first(evaluated_vars) ==
    IF evaluated_vars = << >> THEN << >>
    ELSE << [name |-> Head(evaluated_vars).name,
             value |-> Head(evaluated_vars).value] >>

RECURSIVE NameValuePairs(_)
\* [{var.name: var.value} for var in evaluated_vars]
NameValuePairs(evaluated_vars) ==
    IF evaluated_vars = << >> THEN << >>
    ELSE << [name |-> Head(evaluated_vars).name,
             value |-> Head(evaluated_vars).value] >>
         \o NameValuePairs(Tail(evaluated_vars))

\* `raise e` for Err(e) of resolve_and_evaluate, the exception of a content,
\* or the dict that is returned
template_return(ev, cs) ==
    IF ev.k # "Ok"
    THEN Response("Raised", << >>, << >>,
                  Wrap(ev.k, IF ev.k \in {"LoadFailed", "FormatterFailed", "Raised"}
                             THEN ev.cause ELSE NoneV))
    ELSE IF cs.k # "Ok"
    THEN Response("Raised", << >>, << >>, cs.cause)
    ELSE Response("Ok", NameValuePairs(ev.evaluated), cs.content, NoneV)

\* once every variable is built: the contents, resolve_and_evaluate, the
\* rendering of the contents and the return value, without suspension
TEvaluate ==
    /\ pc = "vars"
    /\ UNCHANGED << pvars, rvars, evars, cvars, hvars >>
    /\ Len(variables) = Len(data.variables)
    /\ \E orders \in AllOrders(variables) :
         \E ev \in { resolve_and_evaluate(variables, orders) } :
         \E cs \in { eval_contents(data.content, ev.evaluated, data.imports,
                                   << >>) } :
             response' = template_return(ev, cs)
    /\ pc' = "done"
    /\ UNCHANGED << request, data, loaded, variables, load_calls >>

NextTemplate ==
    TStart \/ TUnmarshal \/ TAwaitLoad \/ TLoadOk \/ TLoadErr \/ TEvaluate

InitTemplateOnly ==
    InitTemplate /\ InitParseIdle /\ IdleResolver /\ IdleExpr /\ IdleTasks
    /\ IdleLoad

SpecTemplate == InitTemplateOnly /\ [][NextTemplate]_vars

(***************************************************************************)
(* Two requests on one event loop: the coroutine that runs owns the        *)
(* request variables, the other one is parked; the loop passes control at  *)
(* `await source.load_async()`, before a coroutine starts and after it     *)
(* returns.  No statement of unmarshal_template calls set_global_imports,  *)
(* so no action writes __global_imports__                                  *)
(***************************************************************************)
SourceOtherUsers ==
    [source_type |-> "dict", name |-> "users",
     data |-> [list |-> << [age |-> 40] >>]]

ConcurrentRequests ==
    { [imports |-> {}, data_sources |-> ds, variables |-> vs, content |-> << >>] :
        ds \in { << SourceUsers, SourceRemote >>,
                 << SourceOtherUsers, SourceRemote >> },
        vs \in { << EntryAges >>, << EntryRemote >>, << EntryAges, EntryRemote >>,
                 << EntryRemote, EntryAges >>, << EntryRemote, EntryRemote >> } }

\* the locals of the coroutine that runs
Frame ==
    [request |-> request, data |-> data, pc |-> pc, loaded |-> loaded,
     variables |-> variables, response |-> response,
     load_calls |-> load_calls]

StartFrame(d) ==
    [request |-> d, data |-> d, pc |-> "start",
     loaded |-> [x \in {} |-> NoSource], variables |-> << >>,
     response |-> Response("none", << >>, << >>, NoneV), load_calls |-> << >>]

\* one dict for every request
shared_loaded(saved, current) == current

\* `loaded = {}` is a local of unmarshal_template: the coroutine that
\* resumes finds the dict it left
own_loaded(saved, current) == saved

InitConcurrent ==
    /\ \E d \in ConcurrentRequests :
          /\ request = d
          /\ data = d
    /\ pc = "start"
    /\ loaded = [x \in {} |-> NoSource]
    /\ variables = << >>
    /\ response = Response("none", << >>, << >>, NoneV)
    /\ load_calls = << >>
    /\ parked \in { StartFrame(d) : d \in ConcurrentRequests }
    /\ overlap = FALSE
    /\ __global_imports__ = {}
    /\ InitParseIdle /\ IdleResolver /\ IdleExpr /\ IdleLoad

\* the event loop runs the other coroutine
Switch ==
    /\ pc \in {"start", "await", "done"}
    /\ parked.pc \notin {"idle", "done"}
    /\ parked' = Frame
    /\ request' = parked.request
    /\ data' = parked.data
    /\ pc' = parked.pc
    /\ loaded' = own_loaded(parked.loaded, loaded)
    /\ variables' = parked.variables
    /\ response' = parked.response
    /\ load_calls' = parked.load_calls
    /\ overlap' = (overlap \/ (pc = "await" /\ parked.pc = "await"))
    /\ UNCHANGED << __global_imports__, pvars, rvars, evars, hvars >>

NextConcurrent == NextTemplate \/ Switch

SpecConcurrent == InitConcurrent /\ [][NextConcurrent]_vars

(***************************************************************************)
(* Properties of the resolver (specification Spec)                         *)
(***************************************************************************)
Declared == { _table[i].name : i \in 1..Len(_table) }

Referenced == UNION { Variable_unbound(_table[i]) : i \in 1..Len(_table) }

\* resolve() ran, directly or at the start of eval(), and returned Ok
ResolvedOk ==
    /\ ret.op \in {"resolve", "eval"}
    /\ ret.k \notin {"Unbound", "Cyclic"}

\* C1: after resolve() returns Ok, every declared name a variable refers to
\* stands earlier in the table than that variable
C1_DependenciesPrecede ==
    ResolvedOk =>
        \A i \in 1..Len(_table) :
            \A u \in Variable_unbound(_table[i]) \cap Declared :
                \E j \in 1..(i - 1) : _table[j].name = u

\* a resolve() that had to move a variable added first behind its dependencies
C1_Witness ==
    /\ ret.op = "resolve"
    /\ ret.k = "Ok"
    /\ Len(_table) = 3
    /\ _graph.nodes[1] # _table[1].name
    /\ Variable_unbound(_table[3]) \cap Declared # {}

\* the declared names reachable from n along at most k references
RECURSIVE Reach(_, _)
Reach(S, k) ==
    IF k = 0 THEN S
    ELSE Reach(UNION { Variable_unbound(_table[i]) \cap Declared :
                         i \in { j \in 1..Len(_table) : _table[j].name \in S } },
               k - 1) \cup
         UNION { Variable_unbound(_table[i]) \cap Declared :
                   i \in { j \in 1..Len(_table) : _table[j].name \in S } }

HasCycle == \E n \in Declared : n \in Reach({n}, Len(_table))

\* C2: a cycle among declared variables makes resolve() fail with the
\* cyclic-dependency error, here for tables in which every referenced
\* identifier is declared (so that no unbound reference is reported first)
C2_CycleIsReported ==
    (ret.op = "resolve" /\ HasCycle /\ Referenced \subseteq Declared)
        => ret.k = "Cyclic"

\* C3: a reference to an identifier that no variable declares makes
\* resolve() fail with the unbound-reference error that names it, and
\* eval() then loads no variable
C3_UnboundIsReported ==
    (ret.op \in {"resolve", "eval"} /\ Referenced \ Declared # {})
        => /\ ret.k = "Unbound"
           /\ Referenced \ Declared \subseteq { ret.names[i] : i \in 1..Len(ret.names) }
           /\ loads = << >>
           /\ evaluated = << >>

\* eval() of a table of two variables, one of them referring to `missing`
C3_Witness ==
    /\ ret.op = "eval"
    /\ ret.k = "Unbound"
    /\ Len(_table) = 2
    /\ "missing" \in Referenced
    /\ loads = << >>

Successors(G, n) ==
    IF n \in DOMAIN G.adj THEN { G.adj[n][i] : i \in 1..Len(G.adj[n]) } ELSE {}

NodeSet(G) == { G.nodes[i] : i \in 1..Len(G.nodes) }

\* C13: add(v) returns the duplicate-name error and leaves table and graph
\* as they are when v.name is in the table; otherwise v is appended to the
\* table and the graph gains the node v.name and an edge v.name -> u for
\* each u in v.unbound, and nothing else
C13_AddDuplicateOrAppend ==
    [][ ret'.op = "add" =>
          IF InSeq(ret'.var, Names(_table))
          THEN /\ ret'.k = "DuplicateName"
               /\ _table' = _table
               /\ _graph' = _graph
          ELSE /\ ret'.k = "Ok"
               /\ Len(_table') = Len(_table) + 1
               /\ SubSeq(_table', 1, Len(_table)) = _table
               /\ _table'[Len(_table')].name = ret'.var
               /\ NodeSet(_graph') =
                     NodeSet(_graph) \cup {ret'.var}
                       \cup Variable_unbound(_table'[Len(_table')])
               /\ \A n \in NodeSet(_graph') :
                     Successors(_graph', n) =
                       IF n = ret'.var
                       THEN Successors(_graph, n)
                              \cup Variable_unbound(_table'[Len(_table')])
                       ELSE Successors(_graph, n)
      ]_vars

\* an add refused for a name that is taken, after an add that made an edge
C13_Witness ==
    /\ ret.op = "add"
    /\ ret.k = "DuplicateName"
    /\ Len(_table) = 2
    /\ \E n \in NodeSet(_graph) : Successors(_graph, n) # {}

\* C14: when the load of a variable fails during eval, that variable is the
\* last one whose load was called, the variables loaded are the table up to
\* it, the failure carries that variable's name and the cause, and no list
\* of evaluated variables is returned
C14_LoadFailureStopsAndNamesVariable ==
    (ret.op = "eval" /\ ret.k \in {"LoadFailed", "Raised"}) =>
        /\ loads # << >>
        /\ Names(loads) = SubSeq(Names(_table), 1, Len(loads))
        /\ ret.var = loads[Len(loads)].name
        /\ IsErr(ret.cause)
        /\ evaluated = << >>

\* C17: eval calls load in table order; the env given to the load of the
\* i-th variable holds exactly the values of the variables before it, which
\* cover every name in its unbound set; eval_formatter is given that env
\* with the variable's own value registered
C17_EnvHoldsDependenciesAtLoad ==
    ret.op = "eval" =>
        \A i \in 1..Len(loads) :
            /\ loads[i].name = _table[i].name
            /\ DOMAIN loads[i].env = { _table[j].name : j \in 1..(i - 1) }
            /\ Variable_unbound(_table[i]) \subseteq DOMAIN loads[i].env
            /\ i < Len(loads) =>
                  /\ loads[i].formatted
                  /\ loads[i + 1].env = loads[i].formatter_env
            /\ loads[i].formatted =>
                  /\ DOMAIN loads[i].formatter_env =
                        DOMAIN loads[i].env \cup {loads[i].name}
                  /\ \A n \in DOMAIN loads[i].env :
                        loads[i].formatter_env[n] = loads[i].env[n]
                  /\ ret.k = "Ok" =>
                        loads[i].formatter_env[loads[i].name] = evaluated[i].value

\* three variables evaluated, added in an order that resolve had to change,
\* the last one loaded referring to both of the others
C17_Witness ==
    /\ ret.op = "eval" /\ ret.k = "Ok"
    /\ Len(loads) = 3
    /\ Cardinality(Variable_unbound(_table[3])) = 2
    /\ Variable_unbound(_table[2]) # {}
    /\ DOMAIN _graph.adj = {"a", "b", "c"}
    /\ _graph.nodes[1] = _table[3].name

\* C18: the names carried by the unbound-reference error of resolve() are
\* exactly the nodes of the graph that no variable of the table declares
C18_UnboundNamesAreUndeclared ==
    (ret.op \in {"resolve", "eval"} /\ ret.k = "Unbound") =>
        { ret.names[i] : i \in 1..Len(ret.names) } = NodeSet(_graph) \ Declared

\* the declared variables that lie on a cycle of references
CycleMembers == { n \in Declared : n \in Reach({n}, Len(_table)) }

\* C19: the cyclic-dependency error of resolve() carries the variables that
\* form the cycle
C19_CyclicErrorCarriesMembers ==
    (ret.op \in {"resolve", "eval"} /\ ret.k = "Cyclic") =>
        { ret.names[i] : i \in 1..Len(ret.names) } = CycleMembers

\* C20: add_many(vs) adds the variables of vs in order up to the first one
\* whose name is taken, by the table or by a variable of vs before it, and
\* returns the error of that add; the table keeps what it held, gains the
\* variables before the failing one and none after it, and the graph gains
\* the nodes and edges of the variables added and nothing else
C20_AddManyStopsAtFirstFailure ==
    [][ ret'.op = "add_many" =>
          LET vs_names == ret'.names
              added    == Len(_table') - Len(_table)
              new      == SubSeq(_table', Len(_table) + 1, Len(_table'))
              taken(i) == \/ InSeq(vs_names[i], Names(_table))
                          \/ \E j \in 1..(i - 1) : vs_names[j] = vs_names[i]
          IN  /\ added \in 0..Len(vs_names)
              /\ SubSeq(_table', 1, Len(_table)) = _table
              /\ Names(new) = SubSeq(vs_names, 1, added)
              /\ \A i \in 1..added : ~taken(i)
              /\ IF added = Len(vs_names)
                 THEN ret'.k = "Ok"
                 ELSE /\ ret'.k = "DuplicateName"
                      /\ taken(added + 1)
                      /\ ret'.var = vs_names[added + 1]
              /\ NodeSet(_graph') =
                    NodeSet(_graph)
                      \cup UNION { {new[i].name} \cup Variable_unbound(new[i]) :
                                     i \in 1..added }
              /\ \A n \in NodeSet(_graph') :
                    Successors(_graph', n) =
                      Successors(_graph, n)
                        \cup UNION { Variable_unbound(new[i]) :
                                       i \in { j \in 1..added : new[j].name = n } }
      ]_vars

\* add_many of three variables to an empty resolver: the first was added,
\* the second has the first one's name, the third was not added
C20_Witness ==
    /\ ret.op = "add_many"
    /\ ret.k = "DuplicateName"
    /\ Len(ret.names) = 3
    /\ ret.names[1] = ret.names[2]
    /\ ret.names[3] # ret.names[1]
    /\ ret.var = ret.names[2]
    /\ Names(_table) = << ret.names[1] >>
    /\ ret.names[3] \notin NodeSet(_graph)

(***************************************************************************)
(* Properties of the orchestrator (specification SpecTemplate)             *)
(***************************************************************************)
\* C4: Scenario A (a = 1 + 2, b = a * 10, c = a + b, no content) returns
\* the variables [{a:3},{b:30},{c:33}]
C4_ScenarioA ==
    (pc = "done" /\ request.variables = ScenarioA /\ request.content = << >>)
        => /\ response.k = "Ok"
           /\ response.variables =
                << [name |-> "a", value |-> IntV(3)],
                   [name |-> "b", value |-> IntV(30)],
                   [name |-> "c", value |-> IntV(33)] >>

C4_Witness ==
    /\ pc = "done"
    /\ request.variables = ScenarioA
    /\ request.content = << >>
    /\ response.k = "Ok"
    /\ Len(response.variables) = 3

\* C5: Scenario D (pi = 3.14159 with formatter, content `value is ${pi}`)
\* renders {tag: "p", text: "value is 3.14", style: {}}
C5_ScenarioD ==
    (pc = "done" /\ request.variables = ScenarioDVars
       /\ request.content = << HtmlD >>)
        => /\ response.k = "Ok"
           /\ response.content =
                << [tag |-> "p",
                    text |-> << "v", "a", "l", "u", "e", " ", "i", "s", " ",
                                "3", ".", "1", "4" >>,
                    style |-> << >>] >>

\* C6: Scenario E (ages = $.list[*].age of users, mean = sum(ages)/len(ages))
\* returns [{ages:[10,20,30]},{mean:20}]
C6_ScenarioE ==
    (pc = "done" /\ request.variables = ScenarioE
       /\ request.data_sources # << >> /\ request.content = << >>)
        => /\ response.k = "Ok"
           /\ Len(response.variables) = 2
           /\ response.variables[1] =
                [name |-> "ages", value |-> ListV(<< 10, 20, 30 >>)]
           /\ response.variables[2].name = "mean"
           /\ response.variables[2].value \in {IntV(20), FloatV(20 * FloatScale)}

(***************************************************************************)
(* Properties of the extractor (specification SpecParse)                   *)
(***************************************************************************)
\* C7: Scenario F, one placeholder with nested braces: parse returns Ok
\* with exactly one entry whose expression is everything between the outer
\* braces
C7_ScenarioF ==
    (text = ScenarioF /\ presult # "run")
        => /\ presult = "Ok"
           /\ Len(table) = 1
           /\ table[1][2] = ScenarioFExpr

NoPlaceholder(t) ==
    \A i \in 1..(Len(t) - 1) : ~(t[i] = "$" /\ t[i + 1] = "{")

\* C8: a text without `${` (the empty text included) is returned as it is,
\* with an empty table
C8_NoPlaceholderIsIdentity ==
    (NoPlaceholder(text) /\ presult # "run")
        => /\ presult = "Ok"
           /\ mutate_text = text
           /\ table = << >>

RECURSIVE Restore(_, _, _)
\* the output text with the tokens, last first, replaced at the position
\* they were inserted at by ${expression}
Restore(txt, tbl, pos) ==
    IF tbl = << >> THEN txt
    ELSE LET n == Len(tbl)
             at == pos[n] - 8
         IN  Restore(Slice(txt, 0, at) \o << "$", "{" >> \o tbl[n][2] \o << "}" >>
                        \o Slice(txt, at + 8, Len(txt)),
                     SubSeq(tbl, 1, n - 1), SubSeq(pos, 1, n - 1))

\* C9: when parse returns Ok, every token stands in the output text where
\* it was inserted, and putting ${expression} back there gives the input
C9_RoundTrip ==
    presult = "Ok" =>
        /\ \A i \in 1..Len(table) :
             Slice(mutate_text, offsets[i] - 8, offsets[i]) = table[i][1]
        /\ Restore(mutate_text, table, offsets) = text

C9_Witness ==
    /\ presult = "Ok"
    /\ Len(table) = 2
    /\ Len(table[1][2]) > 0
    /\ mutate_text # text

\* C10: the tokens of the table are pairwise distinct
C10_TokensDistinct ==
    \A i, j \in 1..Len(table) : i # j => table[i][1] # table[j][1]

RECURSIVE Depths(_, _)
\* the values the brace counter takes after each character of e, starting
\* from d
Depths(e, d) ==
    IF e = << >> THEN << d >>
    ELSE << d >> \o Depths(Tail(e), IF Head(e) = "{" THEN d + 1
                                     ELSE IF Head(e) = "}" THEN d - 1
                                     ELSE d)

\* C11: every expression of the table is brace-balanced: a counter going
\* up on `{` and down on `}` is never negative and is zero at the end
C11_ExprBalanced ==
    \A i \in 1..Len(table) :
        \E ds \in { Depths(table[i][2], 0) } :
            /\ \A j \in 1..Len(ds) : ds[j] >= 0
            /\ ds[Len(ds)] = 0

\* a finished parse whose table holds an expression with a nested pair
C11_Witness ==
    /\ presult = "Ok"
    /\ Len(table) >= 1
    /\ \E j \in 1..Len(table[1][2]) : table[1][2][j] = "{"

Count(e, ch) == Cardinality({ j \in 1..Len(e) : e[j] = ch })

\* the offsets of the closing braces that match an opening brace whose
\* expression starts at offset s of t
Closers(t, s) ==
    { c \in s..(Len(t) - 1) :
        /\ t[c + 1] = "}"
        /\ Count(Slice(t, s, c), "{") = Count(Slice(t, s, c), "}") }

Least(S) == CHOOSE x \in S : \A y \in S : x <= y

Openers(t, from) ==
    { i \in from..(Len(t) - 2) : t[i + 1] = "$" /\ t[i + 2] = "{" }

RECURSIVE UnmatchedAt(_, _)
\* reading t from offset `from`: the offset just after the first `${` that
\* no closing brace matches, or -1 when every `${` is matched
UnmatchedAt(t, from) ==
    IF Openers(t, from) = {} THEN -1
    ELSE IF Closers(t, Least(Openers(t, from)) + 2) = {}
    THEN Least(Openers(t, from)) + 2
    ELSE UnmatchedAt(t, Least(Closers(t, Least(Openers(t, from)) + 2)) + 1)

RECURSIVE Shift(_)
\* by how much the placeholders of tbl, replaced by their tokens, moved
\* the text behind them
Shift(tbl) ==
    IF tbl = << >> THEN 0
    ELSE 8 - (Len(Head(tbl)[2]) + 3) + Shift(Tail(tbl))

\* C21: for a text with a `${` that no closing brace matches, parse ends
\* with the unmatched-braces error; the offset it carries is the offset
\* just after that `${` in the text as rewritten so far, and the value
\* returned holds no table, whatever was extracted before
C21_UnmatchedBracesIsReported ==
    (presult # "run" /\ UnmatchedAt(text, 0) >= 0) =>
        /\ presult = "ValueError"
        /\ perr = UnmatchedAt(text, 0) + Shift(table)
        /\ Slice(mutate_text, perr - 2, perr) = << "$", "{" >>
        /\ parse(text).k = "ValueError"
        /\ parse(text).table = << >>

\* the error met after a placeholder was extracted and replaced
C21_Witness ==
    /\ presult = "ValueError"
    /\ Len(table) >= 1
    /\ UnmatchedAt(text, 0) >= 0
    /\ perr # UnmatchedAt(text, 0)

\* the one name an expression reads, or "" when it reads none or several
SoleDependency(expr) ==
    IF Cardinality(unbound(expr, {})) = 1
    THEN CHOOSE d \in unbound(expr, {}) : TRUE
    ELSE ""

\* the text a placeholder is to be replaced by: the formatter of the sole
\* dependency when the value has exactly the type of that variable's value,
\* the default string conversion in every other case
PlaceholderText(val, d, vs) ==
    IF /\ d \in DOMAIN to_env_dict(vs)
       /\ d \in DOMAIN formatters(vs)
       /\ val.t = to_env_dict(vs)[d].t
    THEN Apply(formatters(vs)[d], val, EmptyEnv).s
    ELSE str(val)

\* C22: rendering a placeholder whose expression evaluates puts the
\* formatter's output of the sole dependency in its place when the value's
\* type is identical to the dependency's type, and str(value) otherwise
C22_FormatterOnlyOnIdenticalType ==
    (/\ rendered.k = "returned"
     /\ Len(html_parse_result.exprs) = 1
     /\ ~IsErr(LazyExpr_eval(html_parse_result.exprs[1].expr,
                             to_env_dict(load_evaluated))))
    => rendered.val =
         StrV(replace(html_parse_result.text_with_hash, << "#", "t", "#" >>,
                PlaceholderText(
                    LazyExpr_eval(html_parse_result.exprs[1].expr,
                                  to_env_dict(load_evaluated)),
                    SoleDependency(html_parse_result.exprs[1].expr),
                    load_evaluated)))

RECURSIVE Targets(_)
RECURSIVE TargetsOfAll(_)
\* the names an expression introduces as a lambda parameter or as the
\* target of a comprehension
TargetsOfAll(nodes) ==
    IF nodes = << >> THEN {} ELSE Targets(Head(nodes)) \cup TargetsOfAll(Tail(nodes))

Targets(node) ==
    (IF node.k \in {"Lambda", "ListComp", "GeneratorExp"} THEN {node.id} ELSE {})
    \cup TargetsOfAll(node.args)

\* C23: a name that the expression introduces as a lambda parameter or as
\* a comprehension target (and reads nowhere else) is not reported unbound
C23_TargetsAreNotUnbound ==
    lazy.k = "Ok" => lazy.unbound \cap Targets(lazy.expr) = {}

\* C24: however often an expression is evaluated in it, the mapping the
\* caller passed as env has the keys it had, bound to the values it had
C24_EvalLeavesEnvUnchanged ==
    lazy.k = "evaluated" => lazy.env = lazy.env0

\* C25: resolve() returns Ok whenever every name the variables refer to
\* is a declared variable and no variable depends on itself through the
\* others, whatever the order the variables were added in
C25_ResolveOkWhenDeclaredAndAcyclic ==
    (ret.op = "resolve" /\ Referenced \subseteq Declared /\ ~HasCycle)
        => ret.k = "Ok"

\* C26: parse returns Ok for a text that has placeholders, every `${` of
\* which is closed by a matching brace, wherever the last one ends
C26_MatchedTextParses ==
    (/\ presult # "run"
     /\ Openers(text, 0) # {}
     /\ UnmatchedAt(text, 0) = -1)
        => presult = "Ok"

\* s and t hold the same items, each as often in the one as in the other
IsPermutation(s, t) ==
    /\ Len(s) = Len(t)
    /\ \A i \in 1..Len(t) :
          Cardinality({ j \in 1..Len(s) : s[j] = t[i] })
            = Cardinality({ j \in 1..Len(t) : t[j] = t[i] })

\* C27: resolve() never changes the graph; when it fails the table is as
\* it was; when it succeeds the table is a permutation of what it was, and
\* a resolve() that follows a successful one leaves the order as it is
C27_ResolveFrame ==
    [][ ret'.op = "resolve" =>
          /\ _graph' = _graph
          /\ ret'.k # "Ok" => _table' = _table
          /\ ret'.k = "Ok" => IsPermutation(_table', _table)
          /\ (ret.op = "resolve" /\ ret.k = "Ok") => _table' = _table
      ]_vars

\* resolve() succeeded on a and b, added as b and then a, and put a first
C27_Witness ==
    /\ ret.op = "resolve"
    /\ ret.k = "Ok"
    /\ Names(_table) = << "a", "b" >>
    /\ _graph.nodes = << "b", "a" >>

\* C28: once unmarshal_template is over, the template document it was
\* given is as it was submitted: every entry of `variables` has the keys it
\* had, a path variable's `source` among them
C28_TemplateDocumentUnchanged ==
    pc = "done" =>
        /\ data = request
        /\ \A i \in 1..Len(request.variables) :
              DOMAIN data.variables[i] = DOMAIN request.variables[i]

\* what is left of the text to scan
Remaining == Len(mutate_text) - offset

\* C29: parse terminates.  An iteration of the loop either ends it, with
\* Ok or an error, or is a successful step: that one resumes at an offset
\* strictly greater than the one it started from, leaves the text before
\* that offset as it is, with no `${` in what lies before the new offset,
\* and has strictly less text left to scan, never less than none; and
\* there are never more steps than the text has `${`
C29_ParseTerminates ==
    /\ [][ presult = "run" =>
             \/ presult' \in {"Ok", "IndexError", "ValueError"}
             \/ /\ Len(table') = Len(table) + 1
                /\ offset' > offset
                /\ Slice(mutate_text', 0, offset) = Slice(mutate_text, 0, offset)
                /\ Openers(mutate_text', 0) \cap 0..(offset' - 1) = {}
                /\ Remaining' < Remaining
                /\ Remaining' >= 0
         ]_vars
    /\ [](/\ Len(table) <= Cardinality(Openers(text, 0))
          /\ Len(offsets) = Len(table)
          /\ Remaining >= 0)

\* parse ended after two steps on a text with two placeholders
C29_Witness ==
    /\ presult \in {"Ok", "IndexError", "ValueError"}
    /\ Len(offsets) = 2
    /\ Cardinality(Openers(text, 0)) = 2

\* an evaluation that loads each variable of its table once, in the order
\* of the table, and returns one EvaluatedVariable for each, in that order,
\* the table holding the declared variables `vs`
OneLoadEach(ev, vs) ==
    /\ Names(ev.loads) = Names(ev.table)
    /\ Names(ev.evaluated) = Names(ev.table)
    /\ IsPermutation(Names(ev.table), Names(vs))
    /\ \A i \in 1..Len(ev.evaluated) :
          ev.evaluated[i].value = ev.env[ev.evaluated[i].name]

\* C30: a request that is answered evaluated its variables by loading each
\* declared variable once, in resolved order, into one EvaluatedVariable
\* each; the response's `variables` has one entry per declared variable,
\* the name and value of the evaluated variable, in that same order
C30_OneEntryPerDeclaredVariable ==
    response.k = "Ok" =>
        /\ Len(variables) = Len(request.variables)
        /\ IsPermutation(Names(response.variables), Names(request.variables))
        /\ \A orders \in AllOrders(variables) :
              With(resolve_and_evaluate(variables, orders), LAMBDA ev :
                  ev.k = "Ok" => OneLoadEach(ev, variables))
        /\ \E orders \in AllOrders(variables) :
              With(resolve_and_evaluate(variables, orders), LAMBDA ev :
                  /\ ev.k = "Ok"
                  /\ Len(response.variables) = Len(ev.evaluated)
                  /\ \A i \in 1..Len(ev.evaluated) :
                        /\ response.variables[i].name = ev.evaluated[i].name
                        /\ response.variables[i].value = ev.evaluated[i].value)

\* b = a * 10 and a = 1 + 2, declared in that order, were answered with a
\* first
C30_Witness ==
    /\ response.k = "Ok"
    /\ Names(request.variables) = << "b", "a" >>
    /\ Names(response.variables) = << "a", "b" >>

(***************************************************************************)
(* Properties of LazyExpr.__init__ (specification SpecExpr)                *)
(***************************************************************************)
Forbidden(body) ==
    \E i \in 1..Len(body) : body[i].k \in {"Assign", "ClassDef", "FunctionDef"}

\* C12: a body that holds an assignment, a class definition or a function
\* definition, wherever it stands, is rejected at construction
C12_ForbiddenStatementRejected ==
    (lazy.k # "none" /\ Forbidden(raw_ast)) => lazy.k \in {"ValueError", "TypeError"}

\* the path variables built so far whose entry referred to `source_name`
BuiltFrom(source_name) ==
    { i \in 1..Len(variables) :
        /\ "source" \in DOMAIN request.variables[i]
        /\ request.variables[i].source = source_name }

\* C15: within one request the loader of a data source is called at most
\* once per source name, and every path variable that refers to a source
\* holds the mapping the per-request cache has for it
C15_SourceLoadedAtMostOnce ==
    /\ \A i, j \in 1..Len(load_calls) :
          i # j => load_calls[i] # load_calls[j]
    /\ \A source_name \in DOMAIN loaded : \A i \in BuiltFrom(source_name) :
          variables[i].source = loaded[source_name]

\* two path variables of one awaited source, built after a single call of
\* its loader
C15_Witness ==
    /\ Len(variables) = 2
    /\ BuiltFrom("remote") = {1, 2}
    /\ load_calls = << "remote" >>

RECURSIVE unmarshal_alone(_, _, _, _, _, _)
\* the variables a request builds when nothing else runs, the loads of the
\* sources named in `failing` returning Err
unmarshal_alone(entries, data_sources, imports, cache, failing, acc) ==
    IF entries = << >> THEN [k |-> "Ok", variables |-> acc]
    ELSE IF "expr" \in DOMAIN Head(entries)
    THEN unmarshal_alone(Tail(entries), data_sources, imports, cache, failing,
             Append(acc, LiteralVariable(Head(entries).name, Head(entries).expr,
                                         Optional(Head(entries), "formatter"),
                                         "", imports)))
    ELSE IF "source" \notin DOMAIN Head(entries)
    THEN [k |-> "Raised", cause |-> Raise("ValueError")]
    ELSE IF Head(entries).source \in DOMAIN cache
    THEN unmarshal_alone(Tail(entries), data_sources, imports, cache, failing,
             Append(acc, BuildPathVariable(Head(entries),
                                           cache[Head(entries).source], imports)))
    ELSE IF \A i \in 1..Len(data_sources) :
                data_sources[i].name # Head(entries).source
    THEN [k |-> "Raised", cause |-> Raise("ValueError")]
    ELSE With(data_sources[CHOOSE i \in 1..Len(data_sources) :
                  /\ data_sources[i].name = Head(entries).source
                  /\ \A h \in 1..(i - 1) :
                        data_sources[h].name # Head(entries).source],
              LAMBDA src :
         IF src.source_type = "api" /\ src.name \in failing
         THEN [k |-> "Raised", cause |-> Raise("RuntimeError")]
         ELSE With(IF src.source_type = "dict" THEN src.data ELSE Users,
                   LAMBDA mapping :
              unmarshal_alone(Tail(entries), data_sources, imports,
                  (src.name :> mapping) @@ cache, failing,
                  Append(acc, BuildPathVariable(Head(entries), mapping,
                                                imports)))))

\* what unmarshal_template(d) can return or raise when it runs alone
Alone(d) ==
    IF Len(d.variables) = 0
    THEN { Response("Raised", << >>, << >>, Raise("ValueError")) }
    ELSE UNION {
        With(unmarshal_alone(d.variables, d.data_sources, d.imports,
                             [x \in {} |-> NoSource], failing, << >>),
             LAMBDA u :
            IF u.k # "Ok" THEN { Response("Raised", << >>, << >>, u.cause) }
            ELSE { template_return(resolve_and_evaluate(u.variables, orders),
                       eval_contents(d.content,
                           resolve_and_evaluate(u.variables, orders).evaluated,
                           d.imports, << >>)) :
                     orders \in AllOrders(u.variables) }) :
        failing \in SUBSET { d.data_sources[i].name :
                               i \in 1..Len(d.data_sources) } }

\* C16: of two requests interleaved at their awaits, each returns or raises
\* what it can return or raise when it runs alone, and the imports shared
\* by the module stay as they were
C16_ConcurrentAsAlone ==
    /\ pc = "done" => response \in Alone(request)
    /\ parked.pc = "done" => parked.response \in Alone(parked.request)
    /\ __global_imports__ = {}

\* both requests were awaiting a load at the same time, and both returned
\* values of their own "users" source
C16_Witness ==
    /\ overlap
    /\ pc = "done" /\ parked.pc = "done"
    /\ response.k = "Ok" /\ parked.response.k = "Ok"
    /\ request.data_sources # parked.request.data_sources
    /\ Len(request.variables) = 2
    /\ Len(parked.request.variables) = 2

====
